---------------------------- MODULE Spec2Model ----------------------------
(***************************************************************************)
(* The vector index of the healthcare assistant (rag/vector_store.py):     *)
(* a FAISS IndexFlatIP, the two parallel maps chunk_id -> content and      *)
(* chunk_id -> metadata, and the pair of files they are persisted to.      *)
(*                                                                         *)
(* Representation.                                                         *)
(*  - An embedding is [d, x, y]: a vector of d components of which only    *)
(*    the first two (x, y) may be non-zero.  Components are fixed-point    *)
(*    numbers with 10 standing for 1.0, so an inner product of 100 is the  *)
(*    similarity score 1.0 and the embeddings used are unit vectors.       *)
(*  - The FAISS index is [d, xb]: its dimension and its vectors in         *)
(*    insertion order (ntotal = Len(xb)); FAISS position idx (0-based) is  *)
(*    xb[idx + 1].                                                         *)
(*  - A Python dict is a function; a missing key is a key outside DOMAIN.  *)
(***************************************************************************)
EXTENDS Integers, Sequences, FiniteSets, TLC

VARIABLES
    index,           \* self.index
    document_store,  \* self.document_store : chunk_id -> content
    metadata_store,  \* self.metadata_store : chunk_id -> metadata
    index_file,      \* data/vector_store/faiss_index.faiss
    metadata_file,   \* data/vector_store/metadata.pkl
    result           \* the last call: its operation and what it returned

vars == <<index, document_store, metadata_store, index_file, metadata_file,
          result>>

(***************************************************************************)
(* Bounds of the model.                                                    *)
(***************************************************************************)
MaxChunks == 2
MaxBatch == 2
MaxTopK == 2

(***************************************************************************)
(* Program constants and input domains.                                    *)
(***************************************************************************)
dimension == 1536

EmptyDict == [k \in {} |-> ""]

One == 10 * 10

\* Unit vectors of the index dimension, and one of another dimension.
E1 == [d |-> dimension, x |-> 10, y |-> 0]
E2 == [d |-> dimension, x |-> 6, y |-> 8]
E3 == [d |-> dimension, x |-> 0, y |-> 10]
Embeddings == {E1, E2}
WrongEmbeddings == { [d |-> dimension \div 2, x |-> 10, y |-> 0] }
QueryEmbeddings == {E1, E3} \cup WrongEmbeddings

Categories == {"x", "y"}
\* document_id argument: "" stands for None (both are falsy in `document_id or ...`)
DocumentIds == {"A"}
None == ""

\* A document record is a dict; a well-formed one has "content" and "metadata".
WellFormedDocs ==
    { [content |-> "c1", metadata |-> [category |-> "x"]],
      [content |-> "c2", metadata |-> [category |-> "y"]] }
MalformedDocs ==
    { [content |-> "c1"], [metadata |-> [category |-> "x"]] }
Docs == WellFormedDocs \cup MalformedDocs

\* The embedding gateway: the vector it returns for a chunk's text.
Embed(content) == IF content = "c1" THEN E1 ELSE E2

SeqsUpTo(S, n) == UNION { [1..k -> S] : k \in 0..n }

\* The embeddings lists passed with a list of documents: at each position the
\* vector the gateway returns for the document's content, or a vector of
\* another dimension; the list may be shorter or longer than the documents.
EmbeddingsFor(documents) ==
    { embeddings \in SeqsUpTo(Embeddings \cup WrongEmbeddings, MaxBatch) :
        \A i \in DOMAIN embeddings :
            \/ embeddings[i] \in WrongEmbeddings
            \/ embeddings[i] =
                  IF i \in DOMAIN documents /\ "content" \in DOMAIN documents[i]
                  THEN Embed(documents[i].content)
                  ELSE E1 }

Thresholds == {0, One \div 2}
Filters ==
    { EmptyDict } \cup
    { [category |-> [list |-> FALSE, value |-> {"y"}]],
      [category |-> [list |-> TRUE, value |-> Categories]] }

(***************************************************************************)
(* Helpers: formatting and dict operations.                                *)
(***************************************************************************)
\* f"chunk_{n}" and f"doc_{n}", formatted once for the numbers the bounds allow
ChunkIds == [n \in 0..(2 * MaxChunks) |-> "chunk_" \o ToString(n)]
DocIds == [n \in 0..(2 * MaxChunks) |-> "doc_" \o ToString(n)]
ChunkId(n) == ChunkIds[n]
AutoDocId(n) == DocIds[n]

Size(f) == Cardinality(DOMAIN f)
\* d[k] = v
DictSet(f, k, v) == [c \in DOMAIN f \cup {k} |-> IF c = k THEN v ELSE f[c]]
\* del d[k] for every k in ks
DictDel(f, ks) == [c \in DOMAIN f \ ks |-> f[c]]

\* faiss.IndexFlatIP(dimension)
NewIndex == [d |-> dimension, xb |-> <<>>]


(***************************************************************************)
(* Persistence: faiss.write_index / faiss.read_index and pickle.           *)
(***************************************************************************)
\* The flat array of codes FAISS serializes: the vectors one after another.
RECURSIVE Flatten(_)
Flatten(xb) ==
    IF xb = <<>> THEN <<>>
    ELSE <<Head(xb).x, Head(xb).y>> \o Flatten(Tail(xb))

\* faiss.write_index(self.index, ...): header (d, ntotal) and the codes.
WriteIndex(idx) ==
    [state |-> "ok", d |-> idx.d, ntotal |-> Len(idx.xb), codes |-> Flatten(idx.xb)]

\* faiss.read_index(...): the index rebuilt from the header and the codes.
ReadIndex(file) ==
    [d  |-> file.d,
     xb |-> [i \in 1..file.ntotal |->
                [d |-> file.d, x |-> file.codes[2 * i - 1], y |-> file.codes[2 * i]]]]

\* pickle.dump({'documents': ..., 'metadata': ...}, f)
WriteMetadata(ds, ms) == [state |-> "ok", documents |-> ds, metadata |-> ms]

NoFile == [state |-> "absent"]
CorruptFile == [state |-> "corrupt"]

\* What can happen to one _save_index call.  The method catches and logs every
\* exception, so its caller continues in each case:
\*   "ok"         both files written;
\*   "index_only" the index file is written, opening metadata.pkl raises
\*                (also the disk state after a crash between the two writes);
\*   "truncated"  the index file is written, metadata.pkl is opened ('wb'
\*                truncates it) and pickle.dump raises.
\* (A faiss.write_index that itself raises is not enumerated: it leaves the
\* files as some earlier call left them.)
SaveOutcomes == {"ok", "index_only", "truncated"}

\* _save_index: the pair of files after the call.
SaveIndex(idx, ds, ms, io, old_index_file, old_metadata_file) ==
    [index_file    |-> WriteIndex(idx),
     metadata_file |-> CASE io = "ok"         -> WriteMetadata(ds, ms)
                         [] io = "truncated"  -> CorruptFile
                         [] OTHER             -> old_metadata_file]

\* A load that reads the index file and leaves the record maps empty.
InitializeIndexWithoutRecords(ifile, mfile) ==
    [index          |-> IF ifile.state = "ok" THEN ReadIndex(ifile) ELSE NewIndex,
     document_store |-> EmptyDict,
     metadata_store |-> EmptyDict]

\* _initialize_index: the instance a fresh VectorStore() starts with.
InitializeIndex(ifile, mfile) ==
    IF ifile.state # "absent" /\ mfile.state # "absent"
    THEN IF ifile.state = "ok" /\ mfile.state = "ok"
         THEN [index          |-> ReadIndex(ifile),
               document_store |-> mfile.documents,
               metadata_store |-> mfile.metadata]
         \* read_index or pickle.load raised: fall back to a new index; the maps
         \* are still the empty dicts of __init__
         ELSE [index |-> NewIndex, document_store |-> EmptyDict,
               metadata_store |-> EmptyDict]
    ELSE [index |-> NewIndex, document_store |-> EmptyDict,
          metadata_store |-> EmptyDict]

(***************************************************************************)
(* add_documents_with_embeddings                                           *)
(***************************************************************************)
\* np.array(embeddings, dtype=np.float32) raises on rows of unequal length
Rectangular(embeddings) ==
    \A i, j \in DOMAIN embeddings : embeddings[i].d = embeddings[j].d

\* An index.add that takes rows of any one length.
ShapeUnchecked(idx, embeddings) == Rectangular(embeddings)

\* self.index.add(embeddings_array) asserts that the row length is index.d
ShapeMatches(idx, embeddings) ==
    \A i \in DOMAIN embeddings : embeddings[i].d = idx.d

\* document_id or f"doc_{start_index + i}"
DocumentIdOf(document_id, n) ==
    IF document_id # None THEN document_id ELSE AutoDocId(n)

\* The metadata record written for the chunk numbered n: the document's own
\* metadata with the three keys of the store written over it.
MetadataRecord(doc, document_id, n) ==
    IF "category" \in DOMAIN doc.metadata
    THEN [category        |-> doc.metadata.category,
          chunk_id        |-> ChunkId(n),
          document_id     |-> DocumentIdOf(document_id, n),
          embedding_index |-> n]
    ELSE [chunk_id        |-> ChunkId(n),
          document_id     |-> DocumentIdOf(document_id, n),
          embedding_index |-> n]

\* The loop over zip(documents, embeddings), from its i-th round (0-based) on.
\* doc["content"] and doc["metadata"] raise KeyError on a missing key, which
\* leaves the loop with what was stored so far.
RECURSIVE StoreRecords(_, _, _, _, _, _)
StoreRecords(ds, ms, documents, document_id, start_index, i) ==
    IF i = Len(documents)
    THEN [ds |-> ds, ms |-> ms, raised |-> FALSE]
    ELSE LET doc == documents[i + 1]
             chunk_id == ChunkId(start_index + i)
         IN  IF "content" \notin DOMAIN doc
             THEN [ds |-> ds, ms |-> ms, raised |-> TRUE]
             ELSE LET ds1 == DictSet(ds, chunk_id, doc.content)
                  IN  IF "metadata" \notin DOMAIN doc
                      THEN [ds |-> ds1, ms |-> ms, raised |-> TRUE]
                      ELSE StoreRecords(
                               ds1,
                               DictSet(ms, chunk_id,
                                       MetadataRecord(doc, document_id, start_index + i)),
                               documents, document_id, start_index, i + 1)

\* Whether some embedding of the call has another length than the index.
WrongShape(idx, embeddings) ==
    \E i \in DOMAIN embeddings : embeddings[i].d # idx.d

\* What the model keeps of a returned add call: the return value, whether an
\* embedding had the wrong length, and, of a successful call, its arguments,
\* the chunk number it started at and what became of its _save_index.
AddFailed(documents, embeddings, idx) ==
    [op |-> "add", ok |-> FALSE, wrong_shape |-> WrongShape(idx, embeddings)]

AddSucceeded(documents, embeddings, document_id, idx, start_index, io) ==
    [op |-> "add", ok |-> TRUE, wrong_shape |-> WrongShape(idx, embeddings),
     documents |-> documents, embeddings |-> embeddings,
     document_id |-> document_id, start_index |-> start_index, persist |-> io]

\* Whether the call gets as far as _save_index.
AddSaves(documents, embeddings, document_id) ==
    /\ documents # <<>> /\ embeddings # <<>>
    /\ Len(documents) = Len(embeddings)
    /\ Rectangular(embeddings) /\ ShapeMatches(index, embeddings)
    /\ ~StoreRecords(document_store, metadata_store, documents, document_id,
                     Size(document_store), 0).raised

add_documents_with_embeddings(documents, embeddings, document_id, io) ==
    /\ Len(index.xb) + Len(embeddings) <= MaxChunks
    /\ Size(document_store) + Len(documents) <= MaxChunks
    /\ IF \/ documents = <<>> \/ embeddings = <<>>
          \/ Len(documents) # Len(embeddings)
          \/ ~Rectangular(embeddings)
          \/ ~ShapeMatches(index, embeddings)
       THEN \* returned False before anything was changed
            /\ result' = AddFailed(documents, embeddings, index)
            /\ UNCHANGED <<index, document_store, metadata_store, index_file,
                           metadata_file>>
       ELSE LET start_index == Size(document_store)
                stored == StoreRecords(document_store, metadata_store, documents,
                                       document_id, start_index, 0)
                files == SaveIndex(index', stored.ds, stored.ms, io,
                                   index_file, metadata_file)
            IN  /\ index' = [index EXCEPT !.xb = @ \o embeddings]
                /\ document_store' = stored.ds
                /\ metadata_store' = stored.ms
                /\ IF stored.raised
                   THEN \* KeyError caught by the except clause: return False
                        /\ result' = AddFailed(documents, embeddings, index)
                        /\ UNCHANGED <<index_file, metadata_file>>
                   ELSE /\ index_file' = files.index_file
                        /\ metadata_file' = files.metadata_file
                        /\ result' = AddSucceeded(documents, embeddings, document_id,
                                                   index, start_index, io)

(***************************************************************************)
(* search                                                                  *)
(***************************************************************************)
\* Inner product of the query with a stored vector (IndexFlatIP).
InnerProduct(u, v) == u.x * v.x + u.y * v.y

\* self.index.search(query_array, k): the FAISS positions (0-based) of the k
\* vectors of greatest inner product, best first; among equal scores the
\* earlier position comes first.
RECURSIVE FaissSearch(_, _, _, _)
FaissSearch(xb, q, candidates, k) ==
    IF k = 0 \/ candidates = {}
    THEN <<>>
    ELSE LET best == CHOOSE i \in candidates :
                        \A j \in candidates :
                            \/ InnerProduct(q, xb[i]) > InnerProduct(q, xb[j])
                            \/ /\ InnerProduct(q, xb[i]) = InnerProduct(q, xb[j])
                               /\ i <= j
         IN  <<[score |-> InnerProduct(q, xb[best]), idx |-> best - 1]>>
                 \o FaissSearch(xb, q, candidates \ {best}, k - 1)

\* _apply_filters
ApplyFilters(metadata, filters) ==
    \A key \in DOMAIN filters :
        /\ key \in DOMAIN metadata
        /\ IF filters[key].list
           THEN metadata[key] \in filters[key].value
           ELSE {metadata[key]} = filters[key].value

\* results.sort(key=lambda x: x.relevance_score, reverse=True): a stable sort,
\* as an insertion sort that keeps equal scores in their order.
RECURSIVE InsertByScore(_, _)
InsertByScore(sorted, r) ==
    IF sorted = <<>> THEN <<r>>
    ELSE IF Head(sorted).relevance_score >= r.relevance_score
         THEN <<Head(sorted)>> \o InsertByScore(Tail(sorted), r)
         ELSE <<r>> \o sorted

RECURSIVE SortByScore(_)
SortByScore(results) ==
    IF results = <<>> THEN <<>>
    ELSE InsertByScore(SortByScore(SubSeq(results, 1, Len(results) - 1)),
                       results[Len(results)])

\* The loop over zip(scores[0], indices[0]).
RECURSIVE CollectResults(_, _, _, _, _)
CollectResults(hits, ds, ms, similarity_threshold, filters) ==
    IF hits = <<>> THEN <<>>
    ELSE LET hit == Head(hits)
             chunk_id == ChunkId(hit.idx)
             metadata == IF chunk_id \in DOMAIN ms THEN ms[chunk_id] ELSE EmptyDict
             rest == CollectResults(Tail(hits), ds, ms, similarity_threshold, filters)
         IN  IF \/ chunk_id \notin DOMAIN ds
                \/ hit.score < similarity_threshold
                \/ (filters # EmptyDict /\ ~ApplyFilters(metadata, filters))
             THEN rest
             ELSE <<[content         |-> ds[chunk_id],
                     metadata        |-> metadata,
                     relevance_score |-> hit.score,
                     chunk_id        |-> chunk_id,
                     document_id     |-> IF "document_id" \in DOMAIN metadata
                                         THEN metadata.document_id
                                         ELSE "unknown"]>> \o rest

\* search: the list it returns on an instance (idx, ds, ms).
SearchResults(idx, ds, ms, query_embedding, top_k, similarity_threshold, filters) ==
    IF Len(idx.xb) = 0
    THEN <<>>
    ELSE IF query_embedding.d # idx.d
    THEN <<>>      \* index.search asserts the query's length: caught, return []
    ELSE LET k == IF top_k < Len(idx.xb) THEN top_k ELSE Len(idx.xb)
             hits == FaissSearch(idx.xb, query_embedding, DOMAIN idx.xb, k)
             results == SortByScore(
                            CollectResults(hits, ds, ms, similarity_threshold, filters))
         IN  SubSeq(results, 1, IF top_k < Len(results) THEN top_k ELSE Len(results))

search(query_embedding, top_k, similarity_threshold, filters) ==
    /\ result' = [op |-> "search",
                  results |-> SearchResults(index, document_store, metadata_store,
                                            query_embedding, top_k,
                                            similarity_threshold, filters)]
    /\ UNCHANGED <<index, document_store, metadata_store, index_file,
                   metadata_file>>

(***************************************************************************)
(* delete_document and _rebuild_index                                      *)
(***************************************************************************)
\* _rebuild_index: both branches (empty store or not) create a new, empty
\* index; no stored vector is put back.
RebuildIndex(ds) ==
    IF ds = EmptyDict THEN NewIndex ELSE NewIndex

\* The chunk ids whose metadata names the document.
ChunksToDelete(ms, document_id) ==
    { c \in DOMAIN ms : ms[c].document_id = document_id }

delete_document(document_id) ==
    LET chunks_to_delete == ChunksToDelete(metadata_store, document_id)
    IN  /\ IF chunks_to_delete = {}
           THEN UNCHANGED <<index, document_store, metadata_store>>
           ELSE /\ document_store' = DictDel(document_store, chunks_to_delete)
                /\ metadata_store' = DictDel(metadata_store, chunks_to_delete)
                /\ index' = RebuildIndex(document_store')
        /\ result' = [op |-> "delete", ok |-> TRUE, document_id |-> document_id]
        /\ UNCHANGED <<index_file, metadata_file>>

(***************************************************************************)
(* A process restart: a fresh VectorStore() loads what is on disk.         *)
(***************************************************************************)
Restart ==
    LET fresh == InitializeIndex(index_file, metadata_file)
    IN  /\ index' = fresh.index
        /\ document_store' = fresh.document_store
        /\ metadata_store' = fresh.metadata_store
        /\ result' = [op |-> "load",
                       loaded |-> index_file.state = "ok" /\ metadata_file.state = "ok"]
        /\ UNCHANGED <<index_file, metadata_file>>

(***************************************************************************)
(* The specification.                                                      *)
(***************************************************************************)
Init ==
    /\ index = NewIndex
    /\ document_store = EmptyDict
    /\ metadata_store = EmptyDict
    /\ index_file = NoFile
    /\ metadata_file = NoFile
    /\ result = [op |-> "init"]

DeletableIds == DocumentIds \cup { AutoDocId(n) : n \in 0..(MaxChunks - 1) }

Add ==
    \E documents \in SeqsUpTo(Docs, MaxBatch),
       document_id \in DocumentIds \cup {None} :
      \E embeddings \in EmbeddingsFor(documents) :
        IF AddSaves(documents, embeddings, document_id)
        THEN \E io \in SaveOutcomes :
                add_documents_with_embeddings(documents, embeddings, document_id, io)
        ELSE add_documents_with_embeddings(documents, embeddings, document_id, "ok")

Search ==
    \E query_embedding \in QueryEmbeddings, top_k \in 1..MaxTopK,
       similarity_threshold \in Thresholds, filters \in Filters :
        search(query_embedding, top_k, similarity_threshold, filters)

Delete ==
    \E document_id \in DeletableIds : delete_document(document_id)

Next == Add \/ Search \/ Delete \/ Restart

Spec == Init /\ [][Next]_vars

\* The same operations when every document record passed to add is well formed
\* (as the records rag_pipeline.add_documents builds are).
AddWellFormed ==
    \E documents \in SeqsUpTo(WellFormedDocs, MaxBatch),
       document_id \in DocumentIds \cup {None} :
      \E embeddings \in EmbeddingsFor(documents) :
        IF AddSaves(documents, embeddings, document_id)
        THEN \E io \in SaveOutcomes :
                add_documents_with_embeddings(documents, embeddings, document_id, io)
        ELSE add_documents_with_embeddings(documents, embeddings, document_id, "ok")

NextWellFormed == AddWellFormed \/ Search \/ Delete \/ Restart

SpecWellFormed == Init /\ [][NextWellFormed]_vars

(***************************************************************************)
(* The coroutines of the vector index on the event loop.                   *)
(*                                                                         *)
(* add_documents_with_embeddings, delete_document and search are           *)
(* coroutines of one asyncio event loop.  The loop can run another         *)
(* coroutine only while the running one is suspended in an await.  Here    *)
(* result is [op |-> "tasks", writer, search]: the frame of the writer     *)
(* (its next statement "at", "idle" once it has returned) and what the     *)
(* last search saw.                                                        *)
(***************************************************************************)
\* The await expressions of add (line 152) and delete_document (line 265);
\* self.pinecone_client is None, so lines 156 and 269 are not reached.
AwaitPoints == {"save", "rebuild"}

\* The await expressions in the body of the coroutine awaited at each point:
\* _save_index (353-373) and _rebuild_index (375-393) have none.
AwaitsInside == [save |-> {}, rebuild |-> {}]

\* An event loop that could switch at every await expression.
SuspendsAtEveryAwait(at) == at \in AwaitPoints

\* Whether the coroutine can be suspended at the statement: awaiting a
\* coroutine suspends the caller only if the awaited body itself suspends.
Suspends(at) == at \in DOMAIN AwaitsInside /\ AwaitsInside[at] # {}

\* Whether the event loop can start or resume another coroutine.
CanSwitch(writer) == writer.at = "idle" \/ Suspends(writer.at)

IdleWriter == [op |-> "none", at |-> "idle"]

NoSearch == [during |-> "none"]

TasksResult(writer, observed) ==
    [op |-> "tasks", writer |-> writer, search |-> observed]

Returned(op, ok, began_during) ==
    [op |-> op, at |-> "idle", ok |-> ok, began_during |-> began_during]

\* Lines 123-133: the call and its checks; nothing is changed yet.
TaskAddCall(documents, embeddings, document_id) ==
    /\ result.op = "tasks" /\ CanSwitch(result.writer)
    /\ Len(index.xb) + Len(embeddings) <= MaxChunks
    /\ Size(document_store) + Len(documents) <= MaxChunks
    /\ result' = TasksResult(
          IF \/ documents = <<>> \/ embeddings = <<>>
             \/ Len(documents) # Len(embeddings)
             \/ ~Rectangular(embeddings)
          THEN Returned("add", FALSE, result.writer.at)
          ELSE [op |-> "add", at |-> "index_add", documents |-> documents,
                embeddings |-> embeddings, document_id |-> document_id,
                began_during |-> result.writer.at],
          result.search)
    /\ UNCHANGED <<index, document_store, metadata_store, index_file,
                   metadata_file>>

\* Line 136: self.index.add(embeddings_array)
TaskAddIndex ==
    /\ result.op = "tasks" /\ result.writer.at = "index_add"
    /\ IF ShapeMatches(index, result.writer.embeddings)
       THEN /\ index' = [index EXCEPT !.xb = @ \o result.writer.embeddings]
            /\ result' = [result EXCEPT !.writer.at = "store"]
       ELSE /\ result' = [result EXCEPT !.writer =
                            Returned("add", FALSE, result.writer.began_during)]
            /\ UNCHANGED index
    /\ UNCHANGED <<document_store, metadata_store, index_file, metadata_file>>

\* Lines 139-149: the loop that writes the records.
TaskAddStore ==
    /\ result.op = "tasks" /\ result.writer.at = "store"
    /\ LET stored == StoreRecords(document_store, metadata_store,
                                  result.writer.documents,
                                  result.writer.document_id,
                                  Size(document_store), 0)
       IN  /\ document_store' = stored.ds
           /\ metadata_store' = stored.ms
           /\ result' = IF stored.raised
                        THEN [result EXCEPT !.writer =
                                Returned("add", FALSE, result.writer.began_during)]
                        ELSE [result EXCEPT !.writer.at = "save"]
    /\ UNCHANGED <<index, index_file, metadata_file>>

\* Lines 152-159: await self._save_index(), then return True.
TaskAddSave ==
    /\ result.op = "tasks" /\ result.writer.at = "save"
    /\ LET files == SaveIndex(index, document_store, metadata_store, "ok",
                              index_file, metadata_file)
       IN  /\ index_file' = files.index_file
           /\ metadata_file' = files.metadata_file
    /\ result' = [result EXCEPT !.writer =
                    Returned("add", TRUE, result.writer.began_during)]
    /\ UNCHANGED <<index, document_store, metadata_store>>

\* Lines 248-257: the call; it returns True at once if no chunk is found.
TaskDeleteCall(document_id) ==
    /\ result.op = "tasks" /\ CanSwitch(result.writer)
    /\ result' = TasksResult(
          IF ChunksToDelete(metadata_store, document_id) = {}
          THEN Returned("delete", TRUE, result.writer.at)
          ELSE [op |-> "delete", at |-> "remove", document_id |-> document_id,
                began_during |-> result.writer.at],
          result.search)
    /\ UNCHANGED <<index, document_store, metadata_store, index_file,
                   metadata_file>>

\* Lines 259-262: the records are removed from both maps.
TaskDeleteRemove ==
    /\ result.op = "tasks" /\ result.writer.at = "remove"
    /\ LET chunks_to_delete ==
               ChunksToDelete(metadata_store, result.writer.document_id)
       IN  /\ document_store' = DictDel(document_store, chunks_to_delete)
           /\ metadata_store' = DictDel(metadata_store, chunks_to_delete)
    /\ result' = [result EXCEPT !.writer.at = "rebuild"]
    /\ UNCHANGED <<index, index_file, metadata_file>>

\* Lines 265-272: await self._rebuild_index(), then return True.
TaskDeleteRebuild ==
    /\ result.op = "tasks" /\ result.writer.at = "rebuild"
    /\ index' = RebuildIndex(document_store)
    /\ result' = [result EXCEPT !.writer =
                    Returned("delete", TRUE, result.writer.began_during)]
    /\ UNCHANGED <<document_store, metadata_store, index_file, metadata_file>>

\* A search coroutine (it has no await): what it sees of the index and the
\* maps, and where the writer was when the loop ran it.
TaskSearch(query_embedding, top_k) ==
    /\ result.op = "tasks" /\ CanSwitch(result.writer)
    /\ result' = [result EXCEPT !.search =
          [during    |-> result.writer.at,
           after     |-> result.writer.op,
           ntotal    |-> Len(index.xb),
           documents |-> Size(document_store),
           metadata  |-> Size(metadata_store),
           persisted |-> /\ index_file = WriteIndex(index)
                         /\ metadata_file = WriteMetadata(document_store,
                                                          metadata_store),
           found     |-> Len(SearchResults(index, document_store,
                                           metadata_store, query_embedding,
                                           top_k, 0, EmptyDict))]]
    /\ UNCHANGED <<index, document_store, metadata_store, index_file,
                   metadata_file>>

InitTasks ==
    /\ index = NewIndex
    /\ document_store = EmptyDict
    /\ metadata_store = EmptyDict
    /\ index_file = NoFile
    /\ metadata_file = NoFile
    /\ result = TasksResult(IdleWriter, NoSearch)

TaskAdd ==
    \E documents \in SeqsUpTo(WellFormedDocs, MaxBatch),
       document_id \in DocumentIds \cup {None} :
      \E embeddings \in EmbeddingsFor(documents) :
        TaskAddCall(documents, embeddings, document_id)

TaskDelete == \E document_id \in DeletableIds : TaskDeleteCall(document_id)

TaskSearches ==
    \E query_embedding \in {E1}, top_k \in 1..MaxTopK :
        TaskSearch(query_embedding, top_k)

NextTasks ==
    \/ TaskAdd \/ TaskAddIndex \/ TaskAddStore \/ TaskAddSave
    \/ TaskDelete \/ TaskDeleteRemove \/ TaskDeleteRebuild
    \/ TaskSearches

SpecTasks == InitTasks /\ [][NextTasks]_vars

(***************************************************************************)
(* The healthcare safety filter (safety/healthcare_filter.py).             *)
(*                                                                         *)
(* A text is a TLA+ string; its i-th character is SubSeq(s, i, i).  The    *)
(* filter keeps no state between calls: under SpecSafety result is one    *)
(* call of the filter, pending with its arguments and then returned.       *)
(***************************************************************************)
MaxWords == 2
MaxMessageWords == 2

\* _initialize_unsafe_patterns: each pattern \b(a|b|c)\b is the sequence of its
\* alternatives, in the order the regex tries them.
unsafe_patterns ==
    [critical |-> <<
        <<"diagnose", "diagnosis", "diagnosed">>,
        <<"treat", "treatment", "treating">>,
        <<"prescribe", "prescription", "medication">>,
        <<"surgery", "surgical", "operation">>,
        <<"prognosis", "outcome", "survival">>,
        <<"emergency", "urgent", "immediate">>,
        <<"deadly", "fatal", "lethal">>,
        <<"cancer", "cancerous", "malignant">>,
        <<"heart attack", "stroke", "seizure">>
     >>,
     high |-> <<
        <<"symptom", "symptoms">>,
        <<"pain", "hurting", "ache">>,
        <<"fever", "temperature", "hot">>,
        <<"bleeding", "blood", "wound">>,
        <<"nausea", "vomiting", "dizzy">>,
        <<"breathing", "breathless", "choking">>,
        <<"chest pain", "heart", "cardiac">>,
        <<"headache", "migraine", "pressure">>
     >>,
     medium |-> <<
        <<"medicine", "pill", "drug">>,
        <<"dose", "dosage", "amount">>,
        <<"side effect", "reaction", "allergy">>,
        <<"test", "testing", "exam">>,
        <<"result", "finding", "abnormal">>,
        <<"risk", "dangerous", "harmful">>
     >>,
     low |-> <<
        <<"healthy", "wellness", "fitness">>,
        <<"nutrition", "diet", "vitamin">>,
        <<"exercise", "workout", "activity">>,
        <<"sleep", "rest", "relaxation">>,
        <<"prevention", "prevent", "avoid">>
     >>]

\* _initialize_medical_advice_patterns
medical_advice_patterns ==
    << <<"you should", "you need to", "you must">>,
       <<"I recommend", "I suggest", "I advise">>,
       <<"take this", "use this", "try this">>,
       <<"apply", "administer", "inject">>,
       <<"continue", "stop", "start">>,
       <<"change", "modify", "adjust">>,
       <<"combine", "mix", "add">>,
       <<"avoid", "prevent", "stop">> >>

\* _generate_emergency_response
EmergencyResponse ==
    "I understand you may be experiencing concerning symptoms. "
    \o "If you're experiencing a medical emergency, please call emergency services immediately. "
    \o "For non-emergency concerns, I recommend consulting with a healthcare professional "
    \o "who can properly assess your situation and provide appropriate guidance."

\* _generate_symptom_response
SymptomResponse ==
    "I can provide general information about symptoms, but I cannot diagnose or assess "
    \o "your specific situation. If you're concerned about symptoms you're experiencing, "
    \o "please consult with a healthcare professional who can properly evaluate your condition "
    \o "and provide appropriate medical advice."

\* _generate_treatment_response
TreatmentResponse ==
    "I can provide educational information about treatments, but I cannot recommend "
    \o "specific treatments for your situation. Treatment decisions should be made by "
    \o "qualified healthcare professionals based on your individual medical history, "
    \o "current condition, and other relevant factors."

\* _generate_general_safe_response
GeneralSafeResponse ==
    "I'm here to provide helpful healthcare information and answer your questions. "
    \o "However, for any medical concerns, diagnosis, or treatment recommendations, "
    \o "please consult with qualified healthcare professionals who can provide "
    \o "personalized medical advice based on your specific situation."

\* self.disclaimers["general"]
GeneralDisclaimer ==
    "This information is for educational purposes only and should not be considered medical advice."

emergency_keywords ==
    {"emergency", "urgent", "immediate", "severe", "critical", "pain", "bleeding", "unconscious", "breathing", "heart"}

symptom_keywords ==
    {"symptom", "feeling", "experiencing", "noticing", "having"}

treatment_keywords ==
    {"treat", "cure", "fix", "help", "solution", "remedy"}

\* str.lower() on the letters the texts use.
LowerCase ==
    [A |-> "a", B |-> "b", C |-> "c", D |-> "d", E |-> "e", F |-> "f", G |-> "g",
     H |-> "h", I |-> "i", J |-> "j", K |-> "k", L |-> "l", M |-> "m", N |-> "n",
     O |-> "o", P |-> "p", Q |-> "q", R |-> "r", S |-> "s", T |-> "t", U |-> "u",
     V |-> "v", W |-> "w", X |-> "x", Y |-> "y", Z |-> "z"]

\* The characters the regex class \w matches in a lower-cased text.
WordChars ==
    {"a", "b", "c", "d", "e", "f", "g", "h", "i", "j", "k", "l", "m", "n", "o",
     "p", "q", "r", "s", "t", "u", "v", "w", "x", "y", "z",
     "0", "1", "2", "3", "4", "5", "6", "7", "8", "9", "_"}

\* The characters str.strip() removes.
Whitespace == {" ", "\t", "\n", "\r"}

CharAt(s, i) == SubSeq(s, i, i)

RECURSIVE StrLower(_)
StrLower(s) ==
    IF s = "" THEN ""
    ELSE IF Len(s) = 1
         THEN IF s \in DOMAIN LowerCase THEN LowerCase[s] ELSE s
         ELSE LET half == Len(s) \div 2
              IN  StrLower(SubSeq(s, 1, half))
                      \o StrLower(SubSeq(s, half + 1, Len(s)))

\* str.strip(): the text without its leading and trailing whitespace.
RECURSIVE Strip(_)
Strip(s) ==
    IF s = "" THEN ""
    ELSE IF CharAt(s, 1) \in Whitespace THEN Strip(SubSeq(s, 2, Len(s)))
    ELSE IF CharAt(s, Len(s)) \in Whitespace THEN Strip(SubSeq(s, 1, Len(s) - 1))
    ELSE s

\* keyword in message: the keyword occurs as a substring.
Contains(s, keyword) ==
    \E i \in 1..(Len(s) - Len(keyword) + 1) :
        SubSeq(s, i, i + Len(keyword) - 1) = keyword

\* The regex assertion \b before the i-th character (after the last one when
\* i = Len(s) + 1): exactly one of the two neighbours is a word character.
IsWordChar(s, i) == i >= 1 /\ i <= Len(s) /\ CharAt(s, i) \in WordChars

WordBoundary(s, i) == IsWordChar(s, i - 1) # IsWordChar(s, i)

\* Whether \b(alt)\b with re.IGNORECASE matches the lower-cased text at i.
MatchesAt(s, i, alt) ==
    /\ i + Len(alt) - 1 <= Len(s)
    /\ WordBoundary(s, i)
    /\ WordBoundary(s, i + Len(alt))
    /\ SubSeq(s, i, i + Len(alt) - 1) = StrLower(alt)

\* The length of the match of the pattern at i: that of the first alternative
\* that matches there, 0 if none does (none does where \b fails).
MatchLength(s, i, pattern) ==
    IF ~WordBoundary(s, i) THEN 0
    ELSE IF \E k \in DOMAIN pattern : MatchesAt(s, i, pattern[k])
    THEN LET k == CHOOSE k \in DOMAIN pattern :
                    /\ MatchesAt(s, i, pattern[k])
                    /\ \A j \in 1..(k - 1) : ~MatchesAt(s, i, pattern[j])
         IN  Len(pattern[k])
    ELSE 0

\* len(re.findall(pattern, s)): the non-overlapping matches from i on; the
\* scan goes on behind each match, from the leftmost start at or after i.
RECURSIVE FindAll(_, _, _)
FindAll(s, i, pattern) ==
    LET starts == { j \in i..Len(s) : MatchLength(s, j, pattern) > 0 }
    IN  IF starts = {} THEN 0
        ELSE LET j == CHOOSE j \in starts : \A k \in starts : j <= k
             IN  1 + FindAll(s, j + MatchLength(s, j, pattern), pattern)

\* The matches of all the patterns of a list.
RECURSIVE CountMatches(_, _, _)
CountMatches(s, patterns, k) ==
    IF k > Len(patterns) THEN 0
    ELSE FindAll(s, 1, patterns[k]) + CountMatches(s, patterns, k + 1)

\* _assess_content_risk: the matches per tier and the weighted total.
AssessContentRisk(content) ==
    LET content_lower == StrLower(content)
        risk_scores == [level \in DOMAIN unsafe_patterns |->
                           CountMatches(content_lower, unsafe_patterns[level], 1)]
    IN  [risk_scores |-> risk_scores,
         total_risk  |-> risk_scores.critical * 10 + risk_scores.high * 5
                           + risk_scores.medium * 2 + risk_scores.low * 1]

\* _detect_medical_advice
DetectMedicalAdvice(content) ==
    LET advice_count == CountMatches(StrLower(content), medical_advice_patterns, 1)
    IN  [advice_count |-> advice_count,
         severity     |-> IF advice_count >= 3 THEN "high"
                          ELSE IF advice_count >= 1 THEN "medium"
                          ELSE "none"]

\* A verdict that leaves out the check for critical patterns.
DetermineSafetyByTotalAndAdvice(risk_assessment, medical_advice) ==
    ~(risk_assessment.total_risk >= 20 \/ medical_advice.severity = "high")

\* _determine_safety
DetermineSafety(risk_assessment, medical_advice) ==
    IF risk_assessment.total_risk >= 20 THEN FALSE
    ELSE IF medical_advice.severity = "high" THEN FALSE
    ELSE IF risk_assessment.risk_scores.critical > 0 THEN FALSE
    ELSE TRUE

\* A risk level that looks at the weighted total only.
DetermineRiskLevelByTotal(risk_assessment, medical_advice) ==
    IF risk_assessment.total_risk >= 30 THEN "CRITICAL"
    ELSE IF risk_assessment.total_risk >= 20 THEN "HIGH"
    ELSE IF risk_assessment.total_risk >= 10 THEN "MEDIUM"
    ELSE "LOW"

\* _determine_risk_level
DetermineRiskLevel(risk_assessment, medical_advice) ==
    LET total_risk == risk_assessment.total_risk
        advice_severity == medical_advice.severity
    IN  IF total_risk >= 30 \/ advice_severity = "high" THEN "CRITICAL"
        ELSE IF total_risk >= 20 \/ advice_severity = "medium" THEN "HIGH"
        ELSE IF total_risk >= 10 THEN "MEDIUM"
        ELSE "LOW"

\* RiskLevel: the values of the enum.
RiskLevel == [LOW |-> 1, MEDIUM |-> 2, HIGH |-> 3, CRITICAL |-> 4]

\* The statements of check_content's try block in which an exception is
\* taken to be raised: content.strip() (a content that is no str), the two
\* scans, the logging; "none" if nothing raises.
Faults == {"none", "strip", "assess", "detect", "log"}

\* The SafetyResult of the first return: empty content.
EmptyContentResult ==
    [is_safe |-> TRUE, risk_level |-> "LOW", raised |-> FALSE]

\* An except clause that lets the content through.
FailOpenResult ==
    [is_safe |-> TRUE, risk_level |-> "LOW", raised |-> TRUE]

\* The SafetyResult of the except clause.
FailClosedResult ==
    [is_safe |-> FALSE, risk_level |-> "HIGH", raised |-> TRUE]

\* check_content: the SafetyResult (is_safe, risk_level) and whether the
\* except clause produced it.
CheckContent(content, fault) ==
    IF content = "" THEN EmptyContentResult
    ELSE IF fault = "strip" THEN FailClosedResult
    ELSE IF Strip(content) = "" THEN EmptyContentResult
    ELSE IF fault # "none" THEN FailClosedResult
    ELSE LET risk_assessment == AssessContentRisk(content)
             medical_advice_detected == DetectMedicalAdvice(content)
         IN  [is_safe    |-> DetermineSafety(risk_assessment,
                                             medical_advice_detected),
              risk_level |-> DetermineRiskLevel(risk_assessment,
                                                medical_advice_detected),
              raised     |-> FALSE]

\* _contains_emergency_keywords, _contains_symptom_keywords,
\* _contains_treatment_keywords
ContainsEmergencyKeywords(message) ==
    \E keyword \in emergency_keywords : Contains(StrLower(message), keyword)

ContainsSymptomKeywords(message) ==
    \E keyword \in symptom_keywords : Contains(StrLower(message), keyword)

ContainsTreatmentKeywords(message) ==
    \E keyword \in treatment_keywords : Contains(StrLower(message), keyword)

\* A choice of template that looks for symptom keywords first.
GenerateSafeResponseSymptomFirst(user_message, raises) ==
    IF raises THEN GeneralDisclaimer
    ELSE IF ContainsSymptomKeywords(user_message) THEN SymptomResponse
    ELSE IF ContainsEmergencyKeywords(user_message) THEN EmergencyResponse
    ELSE IF ContainsTreatmentKeywords(user_message) THEN TreatmentResponse
    ELSE GeneralSafeResponse

\* generate_safe_response; raises: an exception in the try block (a message
\* that is no str), answered by the except clause.
GenerateSafeResponse(user_message, raises) ==
    IF raises THEN GeneralDisclaimer
    ELSE IF ContainsEmergencyKeywords(user_message) THEN EmergencyResponse
    ELSE IF ContainsSymptomKeywords(user_message) THEN SymptomResponse
    ELSE IF ContainsTreatmentKeywords(user_message) THEN TreatmentResponse
    ELSE GeneralSafeResponse

\* The two texts of health_check.
HealthCheckSafeText == "Hello, how are you?"

HealthCheckUnsafeText == "You should take this medicine for your symptoms"

\* health_check
HealthCheck ==
    IF ~CheckContent(HealthCheckSafeText, "none").is_safe THEN FALSE
    ELSE IF CheckContent(HealthCheckUnsafeText, "none").is_safe THEN FALSE
    ELSE TRUE

\* The words and phrases the texts of the model are made of.
Words ==
    {"hello", "Stop", "pain", "chest pain", "medicine", "diet", "urgent",
     "urgent surgery", "treatments", "you should", "having", "immediately"}

\* " ".join(words)
RECURSIVE Join(_)
Join(words) ==
    IF words = <<>> THEN ""
    ELSE IF Len(words) = 1 THEN words[1]
    ELSE words[1] \o " " \o Join(Tail(words))

Contents ==
    { Join(ws) : ws \in SeqsUpTo(Words, MaxWords) }
        \cup {" ", HealthCheckSafeText, HealthCheckUnsafeText,
              EmergencyResponse, SymptomResponse, TreatmentResponse,
              GeneralSafeResponse, GeneralDisclaimer}

Messages == { Join(ws) : ws \in SeqsUpTo(Words, MaxMessageWords) }

\* The calls of the model: a call is pending in result until the action of
\* its function has returned.
SafetyCalls ==
    { [op |-> "call", fn |-> "check_content", content |-> content,
       fault |-> fault] : content \in Contents, fault \in Faults }
    \cup { [op |-> "call", fn |-> "generate_safe_response",
            user_message |-> user_message, raises |-> raises] :
                user_message \in Messages, raises \in BOOLEAN }
    \cup { [op |-> "call", fn |-> "health_check"] }

check_content ==
    /\ result.op = "call" /\ result.fn = "check_content"
    /\ result' = [op |-> "check_content", content |-> result.content,
                  fault |-> result.fault]
                     @@ CheckContent(result.content, result.fault)
    /\ UNCHANGED <<index, document_store, metadata_store, index_file,
                   metadata_file>>

generate_safe_response ==
    /\ result.op = "call" /\ result.fn = "generate_safe_response"
    /\ result' = [op |-> "generate_safe_response",
                  user_message |-> result.user_message,
                  raised |-> result.raises,
                  response |-> GenerateSafeResponse(result.user_message,
                                                    result.raises)]
    /\ UNCHANGED <<index, document_store, metadata_store, index_file,
                   metadata_file>>

health_check ==
    /\ result.op = "call" /\ result.fn = "health_check"
    /\ result' = [op |-> "health_check", healthy |-> HealthCheck]
    /\ UNCHANGED <<index, document_store, metadata_store, index_file,
                   metadata_file>>

InitSafety ==
    /\ index = NewIndex
    /\ document_store = EmptyDict
    /\ metadata_store = EmptyDict
    /\ index_file = NoFile
    /\ metadata_file = NoFile
    /\ result \in SafetyCalls

NextSafety == check_content \/ generate_safe_response \/ health_check

SpecSafety == InitSafety /\ [][NextSafety]_vars

(***************************************************************************)
(* The chunker (rag/document_processor.py, chunk_text).                    *)
(*                                                                         *)
(* Under SpecChunker result is one call of chunk_text: pending with its    *)
(* arguments, then in its while loop (the local variables start and        *)
(* chunks, and the windows [start, end) the chunks were cut from), then    *)
(* returned.  Positions are 0-based as in the code.                        *)
(***************************************************************************)
MaxTextLen == 8
MaxBlankTextLen == 4
MaxChunkSize == 7
MaxEndingsLen == 3

\* The loop is followed for one iteration more than a text has characters.
MaxIterations == MaxTextLen + 1

\* settings.chunk_size, settings.chunk_overlap (their defaults)
settings_chunk_size == 1000
settings_chunk_overlap == 200

Min(a, b) == IF a <= b THEN a ELSE b
Max(a, b) == IF a >= b THEN a ELSE b

\* text[start:end]: a negative bound counts from the end of the text, and
\* bounds outside the text are clipped.
PySlice(text, start, end) ==
    LET n == Len(text)
        lo == IF start < 0 THEN Max(n + start, 0) ELSE Min(start, n)
        hi == IF end < 0 THEN Max(n + end, 0) ELSE Min(end, n)
    IN  IF lo >= hi THEN "" ELSE SubSeq(text, lo + 1, hi)

\* chunk.rfind(ending): the last position of the character, -1 if absent.
RFind(chunk, ending) ==
    LET at == { i \in 0..(Len(chunk) - 1) : CharAt(chunk, i + 1) = ending }
    IN  IF at = {} THEN -1 ELSE CHOOSE i \in at : \A j \in at : j <= i

sentence_endings == <<".", "!", "?", "\n">>

\* last_ending > chunk_size * 0.7; for the chunk sizes of the model
\* chunk_size * 0.7 is no integer, so the comparison of floats is this one.
InLastPart(last_ending, chunk_size) == last_ending * 10 > chunk_size * 7

\* A window that ends after the right-most sentence ending of any kind.
WindowAtLastEnding(text, chunk_size, start) ==
    LET end == start + chunk_size
        chunk == PySlice(text, start, end)
        breaks == { RFind(chunk, sentence_endings[k]) : k \in DOMAIN sentence_endings }
        last_ending == CHOOSE i \in breaks : \A j \in breaks : j <= i
    IN  IF end < Len(text) /\ InLastPart(last_ending, chunk_size)
        THEN [chunk |-> SubSeq(chunk, 1, last_ending + 1),
              end   |-> start + last_ending + 1]
        ELSE [chunk |-> chunk, end |-> end]

\* Lines 262-276: the window of one iteration, [chunk, end].
Window(text, chunk_size, start) ==
    LET end == start + chunk_size
        chunk == PySlice(text, start, end)
        breaks == { k \in DOMAIN sentence_endings :
                      InLastPart(RFind(chunk, sentence_endings[k]), chunk_size) }
    IN  IF end < Len(text) /\ breaks # {}
        THEN LET k == CHOOSE k \in breaks : \A j \in breaks : k <= j
                 last_ending == RFind(chunk, sentence_endings[k])
             IN  [chunk |-> SubSeq(chunk, 1, last_ending + 1),
                  end   |-> start + last_ending + 1]
        ELSE [chunk |-> chunk, end |-> end]

\* Lines 247-258: the call up to the while loop.
chunk_text ==
    /\ result.op = "call" /\ result.fn = "chunk_text"
    /\ result' =
          IF result.text = ""
          THEN [op |-> "chunk_text", text |-> result.text, returned |-> TRUE,
                chunk_size |-> result.chunk_size,
                chunk_overlap |-> result.chunk_overlap,
                start |-> 0, chunks |-> <<>>, windows |-> <<>>]
          ELSE LET chunk_size == IF result.chunk_size # 0 THEN result.chunk_size
                                 ELSE settings_chunk_size
                   chunk_overlap == IF result.chunk_overlap # 0
                                    THEN result.chunk_overlap
                                    ELSE settings_chunk_overlap
               IN  [op |-> "chunk_text", text |-> result.text,
                    returned |-> FALSE,
                    chunk_size |-> chunk_size,
                    chunk_overlap |-> Min(chunk_overlap, chunk_size - 1),
                    start |-> 0, chunks |-> <<>>, windows |-> <<>>]
    /\ UNCHANGED <<index, document_store, metadata_store, index_file,
                   metadata_file>>

\* Lines 260-285: one iteration of the while loop; the loop is left, and the
\* chunks are returned, when the new start has reached the end of the text.
chunk_text_loop ==
    /\ result.op = "chunk_text" /\ ~result.returned
    /\ result.start < Len(result.text)
    /\ Len(result.chunks) < MaxIterations
    /\ LET w == Window(result.text, result.chunk_size, result.start)
           start == w.end - result.chunk_overlap
       IN  result' = [result EXCEPT
                        !.chunks = Append(@, Strip(w.chunk)),
                        !.windows = Append(@, [start |-> result.start,
                                               end |-> w.end]),
                        !.start = start,
                        !.returned = (start >= Len(result.text))]
    /\ UNCHANGED <<index, document_store, metadata_store, index_file,
                   metadata_file>>

\* "".join(chars)
RECURSIVE JoinChars(_)
JoinChars(chars) ==
    IF chars = <<>> THEN "" ELSE Head(chars) \o JoinChars(Tail(chars))

\* The texts of the model: letters and full stops; for the shorter ones,
\* blanks; and, after five letters, sentence endings of two kinds.
Texts ==
    { JoinChars(cs) : cs \in SeqsUpTo({"a", "."}, MaxTextLen) }
        \cup { JoinChars(cs) : cs \in SeqsUpTo({"a", ".", " "}, MaxBlankTextLen) }
        \cup { "aaaaa" \o JoinChars(cs) :
                  cs \in SeqsUpTo({"a", ".", "!"}, MaxEndingsLen) }

\* The calls with chunk_size > chunk_overlap >= 0.
ChunkerCalls ==
    { [op |-> "call", fn |-> "chunk_text", text |-> text,
       chunk_size |-> chunk_size, chunk_overlap |-> chunk_overlap] :
          text \in Texts, chunk_size \in 1..MaxChunkSize,
          chunk_overlap \in 0..(MaxChunkSize - 1) }

InitChunker ==
    /\ index = NewIndex
    /\ document_store = EmptyDict
    /\ metadata_store = EmptyDict
    /\ index_file = NoFile
    /\ metadata_file = NoFile
    /\ result \in { c \in ChunkerCalls : c.chunk_size > c.chunk_overlap }

NextChunker == chunk_text \/ chunk_text_loop

SpecChunker == InitChunker /\ [][NextChunker]_vars

(***************************************************************************)
(* Text cleaning: DocumentProcessor._clean_text.                           *)
(***************************************************************************)
\* Bound: the longest raw text, and the number of cleaning passes over it.
MaxRawLen == 5
MaxPasses == 2

\* The characters \w matches: letters of both cases, digits and "_".
ReWord == WordChars \cup DOMAIN LowerCase

\* The punctuation the character class of the second re.sub keeps.
KeptPunctuation ==
    {".", ",", "!", "?", ";", ":", "-", "(", ")", "[", "]", "{", "}"}

\* re.sub(r'<class>+', repl, text): every maximal run of characters of the
\* class is replaced by repl.
RECURSIVE SubRuns(_, _, _)
SubRuns(class, repl, text) ==
    IF text = "" THEN ""
    ELSE IF CharAt(text, 1) \in class
         THEN LET run == CHOOSE n \in 1..Len(text) :
                            /\ \A i \in 1..n : CharAt(text, i) \in class
                            /\ n = Len(text) \/ CharAt(text, n + 1) \notin class
              IN  repl \o SubRuns(class, repl, SubSeq(text, run + 1, Len(text)))
         ELSE CharAt(text, 1) \o SubRuns(class, repl, SubSeq(text, 2, Len(text)))

\* re.sub(r' +', ' ', text) without its effect: the text as it is.
KeepSpaces(text) == text

\* re.sub(r'\s+', ' ', text)
SubWhitespace(text) == SubRuns(Whitespace, " ", text)

\* re.sub(r'[^\w\s\.\,\!\?\;\:\-\(\)\[\]\{\}]', ' ', text)
RECURSIVE SubSpecial(_)
SubSpecial(text) ==
    IF text = "" THEN ""
    ELSE (IF CharAt(text, 1) \in ReWord \cup Whitespace \cup KeptPunctuation
          THEN CharAt(text, 1) ELSE " ")
             \o SubSpecial(SubSeq(text, 2, Len(text)))

\* re.sub(r'\n+', '\n', text)
SubLineBreaks(text) == SubRuns({"\n"}, "\n", text)

\* re.sub(r' +', ' ', text)
SubSpaces(text) == SubRuns({" "}, " ", text)

\* _clean_text(text)
CleanText(text) ==
    IF text = "" THEN ""
    ELSE Strip(SubSpaces(SubLineBreaks(SubSpecial(SubWhitespace(text)))))

\* A call of _clean_text: on a raw text, or on the text an earlier call
\* returned.
clean_text ==
    /\ \/ result.op = "call" /\ result.fn = "_clean_text"
       \/ result.op = "_clean_text" /\ result.passes < MaxPasses
    /\ LET text == IF result.op = "call" THEN result.text ELSE result.cleaned
       IN  result' = [op |-> "_clean_text", text |-> text,
                      cleaned |-> CleanText(text),
                      passes |-> IF result.op = "call" THEN 1
                                 ELSE result.passes + 1]
    /\ UNCHANGED <<index, document_store, metadata_store, index_file,
                   metadata_file>>

\* The raw texts: a letter, an upper-case letter, a kept and a removed
\* character, and three kinds of whitespace.
RawChars == {"a", "B", ".", "#", " ", "\n", "\t"}

RawTexts == { JoinChars(cs) : cs \in SeqsUpTo(RawChars, MaxRawLen) }

InitCleaner ==
    /\ index = NewIndex
    /\ document_store = EmptyDict
    /\ metadata_store = EmptyDict
    /\ index_file = NoFile
    /\ metadata_file = NoFile
    /\ result \in { [op |-> "call", fn |-> "_clean_text", text |-> text] :
                       text \in RawTexts }

NextCleaner == clean_text

SpecCleaner == InitCleaner /\ [][NextCleaner]_vars

(***************************************************************************)
(* The RAG pipeline (rag/rag_pipeline.py) over the vector store and the    *)
(* embedding client (rag/embedding_client.py).                             *)
(***************************************************************************)
\* Bound: the texts one embedding sub-batch holds (batch_size, 100 in the
\* source), scaled to the batches of the model.
BatchSize == 1

\* settings.top_k_results and settings.similarity_threshold (0.7)
settings_top_k_results == 5
settings_similarity_threshold == (7 * One) \div 10

\* An argument that may be omitted is the empty set (None) or the set of its
\* value.  value or default: the default replaces None and every falsy value.
OrDefault(arg, default) ==
    IF arg = {} \/ arg = {0} THEN default ELSE CHOOSE v \in arg : TRUE

\* The embedding of a text that was filtered out or whose batch failed: [].
NoEmbedding == [d |-> 0, x |-> 0, y |-> 0]

\* The vector store as one value: the instance and the files it persists to.
Self ==
    [index |-> index, document_store |-> document_store,
     metadata_store |-> metadata_store, index_file |-> index_file,
     metadata_file |-> metadata_file]

\* chunk_text as a function: the loop from the given start on, and the
\* rest of an iteration once its window w is known.
RECURSIVE ChunkTextFrom(_, _, _, _)
RECURSIVE ChunkTextAfter(_, _, _, _)
ChunkTextAfter(text, chunk_size, chunk_overlap, w) ==
    <<Strip(w.chunk)>> \o
       (IF w.end - chunk_overlap >= Len(text) THEN <<>>
        ELSE ChunkTextFrom(text, chunk_size, chunk_overlap,
                           w.end - chunk_overlap))

ChunkTextFrom(text, chunk_size, chunk_overlap, start) ==
    ChunkTextAfter(text, chunk_size, chunk_overlap,
                   Window(text, chunk_size, start))

ChunkText(text, chunk_size, chunk_overlap) ==
    IF text = "" THEN <<>>
    ELSE ChunkTextFrom(
             text,
             IF chunk_size # 0 THEN chunk_size ELSE settings_chunk_size,
             Min(IF chunk_overlap # 0 THEN chunk_overlap
                 ELSE settings_chunk_overlap,
                 (IF chunk_size # 0 THEN chunk_size ELSE settings_chunk_size) - 1),
             0)

\* _embed_batch_internal: a failed request, or a batch without a valid text,
\* gives [] for every text; otherwise [] stands for each blank text.
EmbedBatchInternal(texts, fails) ==
    [i \in DOMAIN texts |->
        IF fails \/ Strip(texts[i]) = "" THEN NoEmbedding ELSE Embed(texts[i])]

\* embed_batch: the sub-batches of batch_size texts, one after another;
\* fails[b] tells whether the request of sub-batch b fails.
RECURSIVE EmbedBatch(_, _, _, _)
EmbedBatch(texts, batch_size, fails, b) ==
    IF texts = <<>> THEN <<>>
    ELSE EmbedBatchInternal(SubSeq(texts, 1, Min(batch_size, Len(texts))),
                            fails[b])
            \o EmbedBatch(SubSeq(texts, batch_size + 1, Len(texts)),
                          batch_size, fails, b + 1)

\* VectorStore.add_documents_with_embeddings as a function of the store: the
\* store after the call, the value returned and what became of the save.
\* First the part after index.add, the records stored being known.
AfterIndexAdd(self, stored, embeddings, io) ==
    IF stored.raised
    THEN [self |-> [self EXCEPT !.index.xb = @ \o embeddings,
                                !.document_store = stored.ds,
                                !.metadata_store = stored.ms],
          ok |-> FALSE, persist |-> "none"]
    ELSE [self |-> [index |-> [self.index EXCEPT !.xb = @ \o embeddings],
                    document_store |-> stored.ds,
                    metadata_store |-> stored.ms]
                   @@ SaveIndex([self.index EXCEPT !.xb = @ \o embeddings],
                                stored.ds, stored.ms, io,
                                self.index_file, self.metadata_file),
          ok |-> TRUE, persist |-> io]

AddDocumentsWithEmbeddings(self, documents, embeddings, document_id, io) ==
    IF \/ documents = <<>> \/ embeddings = <<>>
       \/ Len(documents) # Len(embeddings)
       \/ ~Rectangular(embeddings)
       \/ ~ShapeMatches(self.index, embeddings)
    THEN [self |-> self, ok |-> FALSE, persist |-> "none"]
    ELSE AfterIndexAdd(self,
                       StoreRecords(self.document_store, self.metadata_store,
                                    documents, document_id,
                                    Size(self.document_store), 0),
                       embeddings, io)

\* VectorStore.delete_document as a function of the store.
DeleteDocument(self, document_id) ==
    IF ChunksToDelete(self.metadata_store, document_id) = {} THEN self
    ELSE [self EXCEPT
            !.document_store =
                DictDel(@, ChunksToDelete(self.metadata_store, document_id)),
            !.metadata_store =
                DictDel(@, ChunksToDelete(self.metadata_store, document_id)),
            !.index = NewIndex]

\* The chunk records add_documents builds from the chunks of document i
\* (0-based).
ChunkRecords(chunks, i, metadata) ==
    [j \in DOMAIN chunks |->
        [content  |-> chunks[j],
         metadata |-> metadata @@ [document_index |-> i,
                                   chunk_index |-> j - 1,
                                   total_chunks |-> Len(chunks),
                                   chunk_size |-> Len(chunks[j])]]]

RECURSIVE AllChunks(_, _, _, _, _)
AllChunks(documents, i, metadata, chunk_size, chunk_overlap) ==
    IF i = Len(documents) THEN <<>>
    ELSE ChunkRecords(ChunkText(documents[i + 1], chunk_size, chunk_overlap),
                      i, metadata)
            \o AllChunks(documents, i + 1, metadata, chunk_size, chunk_overlap)

\* RAGPipeline.add_documents as a function of the store, from the embeddings
\* on: the outcome of the vector store's add, with the number of chunks and
\* whether each of them got an embedding.
AddEmbedded(self, all_chunks, embeddings, io) ==
    AddDocumentsWithEmbeddings(self, all_chunks, embeddings, None, io)
        @@ [chunks   |-> Len(all_chunks),
            embedded |-> \A k \in DOMAIN embeddings :
                            embeddings[k] # NoEmbedding]

\* ... from the chunk records on.
AddChunks(self, all_chunks, fails, io) ==
    AddEmbedded(self, all_chunks,
                EmbedBatch([k \in DOMAIN all_chunks |-> all_chunks[k].content],
                           BatchSize, fails, 1),
                io)

AddDocuments(self, documents, metadata, chunk_size, chunk_overlap, fails, io) ==
    AddChunks(self,
              AllChunks(documents, 0, metadata,
                        OrDefault({chunk_size}, settings_chunk_size),
                        OrDefault({chunk_overlap}, settings_chunk_overlap)),
              fails, io)

\* The call returns: the store the variables take, within the bounds, and
\* the record of the call.
Returns(call, r) ==
    /\ Len(r.self.index.xb) <= MaxChunks
    /\ Size(r.self.document_store) <= MaxChunks
    /\ index' = r.self.index
    /\ document_store' = r.self.document_store
    /\ metadata_store' = r.self.metadata_store
    /\ index_file' = r.self.index_file
    /\ metadata_file' = r.self.metadata_file
    /\ result' = call @@ [success |-> r.ok, chunks |-> r.chunks,
                          embedded |-> r.embedded, persist |-> r.persist]

add_documents(documents, metadata, fails, io) ==
    Returns([op |-> "add_documents"],
            AddDocuments(Self, documents, metadata, 0, 0, fails, io))

\* RAGPipeline.update_document: the old chunks are deleted, then the new
\* content is added with metadata or {"document_id": document_id}.
update_document(document_id, new_content, metadata, fails, io) ==
    Returns([op |-> "update_document", document_id |-> document_id,
             new_content |-> new_content],
            AddDocuments(DeleteDocument(Self, document_id), <<new_content>>,
                         IF metadata # EmptyDict THEN metadata
                         ELSE [document_id |-> document_id],
                         0, 0, fails, io))

\* What the embeddings request of embed_text can do: answer with the vector
\* of the text, answer with a vector of another length, or raise.
Requests == {"ok", "wrong_length", "raises"}

\* embed_text: [] for a blank text, otherwise the answer of the request.
EmbedText(text, request) ==
    IF Strip(text) = "" THEN NoEmbedding
    ELSE IF request = "wrong_length"
         THEN CHOOSE e \in WrongEmbeddings : TRUE
         ELSE Embed(text)

\* Whether index.search raises inside VectorStore.search, which catches the
\* exception and returns [].
SearchRaises(self, query_embedding) ==
    Len(self.index.xb) # 0 /\ query_embedding.d # self.index.d

\* The loop of query over the search results, and its sort.
ProcessResults(search_results, similarity_threshold) ==
    SortByScore(SelectSeq(search_results,
                          LAMBDA r : r.relevance_score >= similarity_threshold))

\* RAGPipeline.query
query(text, top_k, similarity_threshold, filters, request) ==
    /\ result' =
          IF Strip(text) # "" /\ request = "raises"
          THEN [op |-> "query", raised |-> TRUE, search_raised |-> FALSE]
          ELSE LET k == OrDefault(top_k, settings_top_k_results)
                   threshold == OrDefault(similarity_threshold,
                                          settings_similarity_threshold)
                   query_embedding == EmbedText(text, request)
                   search_results ==
                       SearchResults(index, document_store, metadata_store,
                                     query_embedding, k, threshold, filters)
                   documents == ProcessResults(search_results, threshold)
               IN  [op |-> "query", raised |-> FALSE,
                    search_raised |-> SearchRaises(Self, query_embedding),
                    documents |-> documents,
                    total_results |-> Len(documents),
                    metadata |-> [top_k |-> k,
                                  similarity_threshold |-> threshold,
                                  filters_applied |-> filters],
                    args |-> [query_embedding |-> query_embedding,
                              top_k |-> top_k,
                              similarity_threshold |-> similarity_threshold]]
    /\ UNCHANGED <<index, document_store, metadata_store, index_file,
                   metadata_file>>

\* The texts of documents, a content and a blank text, and those of queries.
DocumentTexts == {"c1", " "}
QueryTexts == {"c1", "c2", " "}

\* The metadata of an update: none, or a category.
PipelineMetadata == {EmptyDict, [category |-> "x"]}

AddDocumentsCall ==
    \E documents \in SeqsUpTo(DocumentTexts, MaxBatch),
       fails \in [1..MaxBatch -> BOOLEAN], io \in SaveOutcomes :
        add_documents(documents, EmptyDict, fails, io)

UpdateDocumentCall ==
    \E document_id \in DeletableIds \ DocumentIds, new_content \in DocumentTexts,
       metadata \in PipelineMetadata,
       fails \in [1..MaxBatch -> BOOLEAN], io \in SaveOutcomes :
        /\ \A b \in 2..MaxBatch : ~fails[b]
        /\ update_document(document_id, new_content, metadata, fails, io)

QueryCall ==
    \E text \in QueryTexts,
       top_k \in {{}} \cup { {k} : k \in 1..MaxTopK },
       similarity_threshold \in {{}} \cup { {t} : t \in Thresholds },
       request \in Requests :
        query(text, top_k, similarity_threshold, EmptyDict, request)

\* Ingestion: documents are added, updated and deleted
\* (RAGPipeline.delete_document hands the call to the vector store).
NextPipeline == AddDocumentsCall \/ UpdateDocumentCall \/ Delete

SpecPipeline == Init /\ [][NextPipeline]_vars

\* Retrieval: documents are added and queried.
NextQuery == AddDocumentsCall \/ QueryCall

SpecQuery == Init /\ [][NextQuery]_vars

(***************************************************************************)
(* Document processing (DocumentProcessor.process_document) and the        *)
(* ingestion script (scripts/ingest.py).                                   *)
(***************************************************************************)
\* Bounds: the documents of one ingestion run, and those of one of its
\* batches (batch_size, 10 in the source).
MaxDocuments == 2
DocumentBatchSize == 1

\* self.supported_formats: for each suffix, what its handler does when the
\* extraction raises ("raise": the exception leaves the handler; "empty":
\* the handler catches it, logs it and returns "").
supported_formats ==
    [txt |-> "raise", md |-> "raise", pdf |-> "empty", docx |-> "empty",
     html |-> "empty"]

\* A file: whether it exists, its suffix (without the dot), the text its
\* handler extracts, and whether the extraction raises.
Files ==
    [exists : BOOLEAN,
     suffix : {"txt", "md", "pdf", "PDF", "docx", "html", "exe"},
     text : {"c1", " ", "c #1"},
     extraction : {"ok", "error"}]

\* Whether an exception of the extraction leaves the handler of the suffix.
HandlerRaises(suffix) == supported_formats[suffix] = "raise"

\* process_document from the text of the handler on.
ChunksOfText(text) ==
    IF text = "" \/ Strip(text) = ""
    THEN [raised |-> "none", chunks |-> <<>>]
    ELSE [raised |-> "none",
          chunks |-> ChunkText(CleanText(text), settings_chunk_size,
                               settings_chunk_overlap)]

\* process_document: the exception it raises ("none" if it returns) and the
\* chunks it returns.
ProcessDocument(file) ==
    IF ~file.exists
    THEN [raised |-> "FileNotFoundError", chunks |-> <<>>]
    ELSE IF StrLower(file.suffix) \notin DOMAIN supported_formats
    THEN [raised |-> "ValueError", chunks |-> <<>>]
    ELSE IF file.extraction = "error"
    THEN IF HandlerRaises(StrLower(file.suffix))
         THEN [raised |-> "Exception", chunks |-> <<>>]
         ELSE ChunksOfText("")
    ELSE ChunksOfText(file.text)

process_document ==
    /\ result.op = "call" /\ result.fn = "process_document"
    /\ result' = [op |-> "process_document", file |-> result.file]
                    @@ ProcessDocument(result.file)
    /\ UNCHANGED <<index, document_store, metadata_store, index_file,
                   metadata_file>>

InitProcessor ==
    /\ index = NewIndex
    /\ document_store = EmptyDict
    /\ metadata_store = EmptyDict
    /\ index_file = NoFile
    /\ metadata_file = NoFile
    /\ result \in { [op |-> "call", fn |-> "process_document", file |-> file] :
                       file \in Files }

NextProcessor == process_document

SpecProcessor == InitProcessor /\ [][NextProcessor]_vars

\* A loop that leaves a document without chunks out of both counters.
CountedUnlessEmpty(raised, no_chunks, success) ==
    IF raised THEN "failed"
    ELSE IF no_chunks THEN "skipped"
    ELSE IF success THEN "processed" ELSE "failed"

\* The counter _process_document_batch adds one to for a document:
\* process_document raised, returned no chunks, or add_documents returned
\* success or failure.
Counted(raised, no_chunks, success) ==
    IF raised \/ no_chunks THEN "failed"
    ELSE IF success THEN "processed" ELSE "failed"

\* The metadata _process_document_batch passes with a document's chunks.
IngestMetadata(file) == [file_name |-> file.suffix]

\* One round of the loop of _process_document_batch, from the outcome of
\* add_documents on.
AfterAddDocuments(added, chunks) ==
    [self   |-> added.self,
     key    |-> Counted(FALSE, FALSE, added.ok),
     chunks |-> IF added.ok THEN Len(chunks) ELSE 0]

\* ... from the outcome of process_document on.
AfterProcessDocument(self, file, processed, fails, io) ==
    IF processed.raised # "none" \/ processed.chunks = <<>>
    THEN [self   |-> self,
          key    |-> Counted(processed.raised # "none",
                             processed.chunks = <<>>, FALSE),
          chunks |-> 0]
    ELSE AfterAddDocuments(
             AddDocuments(self, processed.chunks, IngestMetadata(file), 0, 0,
                          fails, io),
             processed.chunks)

\* The counters with the counts of one more document, or batch, added.
AddCounts(one, rest) ==
    [self      |-> rest.self,
     processed |-> rest.processed + one.processed,
     failed    |-> rest.failed + one.failed,
     chunks    |-> rest.chunks + one.chunks]

CountsOf(one) ==
    [processed |-> IF one.key = "processed" THEN 1 ELSE 0,
     failed    |-> IF one.key = "failed" THEN 1 ELSE 0,
     chunks    |-> one.chunks]

\* _process_document_batch: the loop over the documents of a batch; fails[i]
\* tells whether the embedding requests for document i fail.
RECURSIVE ProcessDocumentBatch(_, _, _, _, _)
RECURSIVE ProcessRestOfBatch(_, _, _, _, _)
ProcessRestOfBatch(one, documents, fails, io, i) ==
    AddCounts(CountsOf(one),
              ProcessDocumentBatch(one.self, documents, fails, io, i + 1))

ProcessDocumentBatch(self, documents, fails, io, i) ==
    IF documents = <<>>
    THEN [self |-> self, processed |-> 0, failed |-> 0, chunks |-> 0]
    ELSE ProcessRestOfBatch(
             AfterProcessDocument(self, Head(documents),
                                  ProcessDocument(Head(documents)),
                                  [b \in 1..MaxBatch |-> fails[i]], io),
             Tail(documents), fails, io, i)

\* The loop of ingest_documents over the batches of batch_size documents.
RECURSIVE IngestBatches(_, _, _, _, _, _)
RECURSIVE IngestRestOfBatches(_, _, _, _, _, _)
IngestRestOfBatches(batch, documents, batch_size, fails, io, i) ==
    AddCounts(batch,
              IngestBatches(batch.self, documents, batch_size, fails, io, i))

IngestBatches(self, documents, batch_size, fails, io, i) ==
    IF documents = <<>>
    THEN [self |-> self, processed |-> 0, failed |-> 0, chunks |-> 0]
    ELSE IngestRestOfBatches(
             ProcessDocumentBatch(
                 self, SubSeq(documents, 1, Min(batch_size, Len(documents))),
                 fails, io, i),
             SubSeq(documents, batch_size + 1, Len(documents)),
             batch_size, fails, io, i + Min(batch_size, Len(documents)))

\* The end of ingest_documents: the store its pipeline leaves and the
\* statistics it returns.
IngestReturns(documents, counts) ==
    /\ Len(counts.self.index.xb) <= MaxChunks
    /\ Size(counts.self.document_store) <= MaxChunks
    /\ index' = counts.self.index
    /\ document_store' = counts.self.document_store
    /\ metadata_store' = counts.self.metadata_store
    /\ index_file' = counts.self.index_file
    /\ metadata_file' = counts.self.metadata_file
    /\ result' =
          IF documents = <<>>
          THEN [op |-> "ingest_documents", status |-> "no_documents",
                total_documents |-> 0]
          ELSE [op |-> "ingest_documents", status |-> "completed",
                total_documents |-> Len(documents),
                processed_documents |-> counts.processed,
                failed_documents |-> counts.failed,
                total_chunks |-> counts.chunks,
                documents |-> documents]

\* ingest_documents: a new RAGPipeline(), whose vector store loads the files
\* on disk, takes the documents found batch by batch.
ingest_documents(documents, fails, io) ==
    IngestReturns(
        documents,
        IngestBatches(InitializeIndex(index_file, metadata_file)
                          @@ [index_file |-> index_file,
                              metadata_file |-> metadata_file],
                      documents, DocumentBatchSize, fails, io, 1))

\* The files rglob finds: existing files with a supported suffix.
FoundFiles ==
    { file \in Files :
        /\ file.exists
        /\ file.suffix \in {"txt", "pdf"}
        /\ file.text \in {"c1", " "} }

IngestDocumentsCall ==
    \E documents \in SeqsUpTo(FoundFiles, MaxDocuments),
       fails \in [1..MaxDocuments -> BOOLEAN], io \in SaveOutcomes :
        ingest_documents(documents, fails, io)

NextIngest == IngestDocumentsCall

SpecIngest == Init /\ [][NextIngest]_vars

(***************************************************************************)
(* The chat flow: send_message of the chat API.  The handler is suspended  *)
(* at each of its awaits; result holds the request, the position of the    *)
(* handler, the calls it has made so far and the conversation memory.      *)
(***************************************************************************)

settings_max_conversation_history == 10

settings_require_disclaimer == TRUE

settings_healthcare_disclaimer == TRUE

\* get_healthcare_disclaimer(), without the warning sign it begins with.
HealthcareDisclaimer ==
    "DISCLAIMER: This information is for educational purposes only and should not be considered medical advice. Always consult with qualified healthcare professionals for medical concerns, diagnosis, and treatment. The information provided does not replace professional medical consultation."

\* The ChatMessage of the chat API: role, content, timestamp; it has no
\* message_id attribute.
ApiChatMessage(role, content) == [role |-> role, content |-> content]

\* ConversationMemory.add_message: reading message.message_id of a message
\* without that attribute raises inside the try block, and the method
\* returns False with the conversations as they were.
AddMessage(conversations, conversation_id, message) ==
    IF "message_id" \notin DOMAIN message
    THEN conversations
    ELSE LET messages ==
                 Append(IF conversation_id \in DOMAIN conversations
                        THEN conversations[conversation_id] ELSE <<>>,
                        message)
         IN  DictSet(conversations, conversation_id,
                     IF Len(messages) > settings_max_conversation_history
                     THEN SubSeq(messages,
                                 Len(messages)
                                    - settings_max_conversation_history + 1,
                                 Len(messages))
                     ELSE messages)

\* The input checkpoint: the request is rejected with status 400.
RejectsInput(safety_result) == ~safety_result.is_safe

\* An output check whose verdict is not acted on.
KeepsOutput(response_safety) == FALSE

\* The output checkpoint: the model output is replaced.
ReplacesOutput(response_safety) == ~response_safety.is_safe

\* The response with the disclaimer appended when the settings require it.
WithDisclaimer(llm_response) ==
    IF settings_require_disclaimer /\ settings_healthcare_disclaimer
    THEN llm_response \o "\n\n" \o HealthcareDisclaimer
    ELSE llm_response

\* The handler moves to a position, having made a call.
Proceeds(rec, call, at) ==
    /\ result' = [rec EXCEPT !.calls = Append(@, call), !.at = at]
    /\ UNCHANGED <<index, document_store, metadata_store, index_file,
                   metadata_file>>

\* except Exception: raise HTTPException(status_code=500).
Fails(call) ==
    Proceeds([result EXCEPT !.status = 500], call, "failed")

\* The safety check on the user input: an unsafe message is answered with
\* HTTPException(status_code=400).
send_message_check_input(fault) ==
    /\ result.op = "call" /\ result.fn = "send_message"
    /\ LET safety_result == CheckContent(result.message, fault)
           rec == [op |-> "send_message",
                   message |-> result.message,
                   conversation_id |-> result.conversation_id,
                   include_context |-> result.include_context,
                   conversations |-> result.conversations,
                   calls |-> <<>>,
                   at |-> "check_content",
                   user_input_safe |-> safety_result.is_safe,
                   ai_response_safe |-> TRUE,
                   generated |-> "",
                   llm_response |-> "",
                   response |-> "",
                   status |-> 0]
       IN  IF RejectsInput(safety_result)
           THEN Proceeds([rec EXCEPT !.status = 400], "check_content",
                         "rejected")
           ELSE Proceeds(rec, "check_content", "get_conversation")

\* memory.get_conversation, which answers None on every failure.
send_message_get_conversation ==
    /\ result.op = "send_message" /\ result.at = "get_conversation"
    /\ Proceeds(result, "get_conversation",
                IF result.include_context THEN "query"
                ELSE "generate_response")

\* rag_pipeline.query with the settings' top_k and similarity_threshold.
send_message_query(raises) ==
    /\ result.op = "send_message" /\ result.at = "query"
    /\ IF raises THEN Fails("query")
       ELSE Proceeds(result, "query", "generate_response")

\* llm_client.generate_response
send_message_generate_response(content, raises) ==
    /\ result.op = "send_message" /\ result.at = "generate_response"
    /\ IF raises THEN Fails("generate_response")
       ELSE Proceeds([result EXCEPT !.generated = content,
                                    !.llm_response = content],
                     "generate_response", "check_response")

\* The safety check on the AI response.
send_message_check_response(fault) ==
    /\ result.op = "send_message" /\ result.at = "check_response"
    /\ LET response_safety == CheckContent(result.llm_response, fault)
       IN  Proceeds([result EXCEPT
                        !.ai_response_safe = response_safety.is_safe],
                    "check_content",
                    IF ReplacesOutput(response_safety)
                    THEN "generate_safe_response" ELSE "add_message")

\* safety_filter.generate_safe_response(request.message)
send_message_generate_safe_response(raises) ==
    /\ result.op = "send_message" /\ result.at = "generate_safe_response"
    /\ Proceeds([result EXCEPT
                    !.llm_response = GenerateSafeResponse(result.message,
                                                          raises)],
                "generate_safe_response", "add_message")

\* The disclaimer is appended, the two messages are given to the memory and
\* the ChatResponse is returned.
send_message_add_messages ==
    /\ result.op = "send_message" /\ result.at = "add_message"
    /\ LET llm_response == WithDisclaimer(result.llm_response)
           with_user ==
               AddMessage(result.conversations, result.conversation_id,
                          ApiChatMessage("user", result.message))
       IN  Proceeds([result EXCEPT
                        !.llm_response = llm_response,
                        !.response = llm_response,
                        !.status = 200,
                        !.conversations =
                            AddMessage(with_user, result.conversation_id,
                                       ApiChatMessage("assistant",
                                                      llm_response))],
                    "add_message", "returned")

\* The messages of the requests and the texts the model generates.
ChatMessages ==
    {"hello", "chest pain", "urgent surgery", "you should",
     HealthCheckUnsafeText}

ModelOutputs ==
    {"", "hello", "urgent surgery", "you should", HealthCheckUnsafeText}

ConversationIds == {"conversation_1"}

ChatCalls ==
    { [op |-> "call", fn |-> "send_message", message |-> message,
       conversation_id |-> conversation_id,
       include_context |-> include_context,
       conversations |-> EmptyDict] :
          message \in ChatMessages, conversation_id \in ConversationIds,
          include_context \in BOOLEAN }

InitChat ==
    /\ index = NewIndex
    /\ document_store = EmptyDict
    /\ metadata_store = EmptyDict
    /\ index_file = NoFile
    /\ metadata_file = NoFile
    /\ result \in ChatCalls

NextChat ==
    \/ \E fault \in Faults : send_message_check_input(fault)
    \/ send_message_get_conversation
    \/ \E raises \in BOOLEAN : send_message_query(raises)
    \/ \E content \in ModelOutputs, raises \in BOOLEAN :
           send_message_generate_response(content, raises)
    \/ \E fault \in Faults : send_message_check_response(fault)
    \/ \E raises \in BOOLEAN : send_message_generate_safe_response(raises)
    \/ send_message_add_messages

SpecChat == InitChat /\ [][NextChat]_vars

(***************************************************************************)
(* Properties.                                                             *)
(***************************************************************************)
\* The results of search(q, k, t, f) on an instance with the given index and
\* record maps.
SearchOn(idx, ds, ms, q, k, t, f) == SearchResults(idx, ds, ms, q, k, t, f)

\* The chunks an instance holds in full: content and metadata.
Chunks(ds, ms) == DOMAIN ds \cap DOMAIN ms

\* The chunk ids a result list holds.
ChunkIdsOf(results) == { results[i].chunk_id : i \in DOMAIN results }

\* C1: the numeric index, the content store and the metadata store have the
\* same number of entries, and every index position has its content and
\* metadata record.
C1_LockStep ==
    /\ Len(index.xb) = Size(document_store)
    /\ Len(index.xb) = Size(metadata_store)
    /\ \A idx \in 0..(Len(index.xb) - 1) :
          ChunkId(idx) \in Chunks(document_store, metadata_store)

\* C2: a delete of document d removes exactly the chunks of d, leaves one
\* vector in the index per surviving chunk, and every surviving chunk is still
\* returned by a search with its own embedding.
C2_DeleteRebuildsFromSurvivors ==
    [][(result'.op = "delete" /\ result'.ok) =>
          /\ \A c \in DOMAIN metadata_store' :
                metadata_store'[c].document_id # result'.document_id
          /\ \A c \in Chunks(document_store, metadata_store) :
                metadata_store[c].document_id # result'.document_id =>
                    /\ c \in Chunks(document_store', metadata_store')
                    /\ document_store'[c] = document_store[c]
                    /\ metadata_store'[c] = metadata_store[c]
          /\ Len(index'.xb) = Size(document_store')
          /\ \A c \in Chunks(document_store', metadata_store') :
                c \in ChunkIdsOf(SearchOn(index', document_store', metadata_store',
                                          Embed(document_store'[c]), MaxChunks, 0,
                                          EmptyDict))
      ]_vars

\* C3: a successful add assigns only chunk ids no stored record holds: the
\* store grows by one record per document of the call and every record that
\* was there keeps its content and metadata.
C3_AddAssignsFreshChunkIds ==
    [][(result'.op = "add" /\ result'.ok) =>
          /\ Size(document_store') = Size(document_store) + Len(result'.documents)
          /\ \A c \in DOMAIN document_store : document_store'[c] = document_store[c]
          /\ \A c \in DOMAIN metadata_store : metadata_store'[c] = metadata_store[c]
      ]_vars

\* C4: once delete_document(d) has returned, no search returns a chunk of d,
\* and the content store and the metadata store have the same size.
C4_DeletedDocumentNotReturned ==
    (result.op = "delete" /\ result.ok) =>
        /\ \A q \in QueryEmbeddings, k \in 1..MaxTopK, t \in Thresholds, f \in Filters :
              LET results == SearchOn(index, document_store, metadata_store, q, k, t, f)
              IN  \A i \in DOMAIN results :
                      results[i].document_id # result.document_id
        /\ Size(document_store) = Size(metadata_store)

\* C5: an add that returns failure leaves the index and both stores as they
\* were; an add that returns success has appended every vector of the call to
\* the index and holds a content and a metadata record for every document.
C5_AddIsAtomic ==
    [][result'.op = "add" =>
          IF result'.ok
          THEN /\ index'.xb = index.xb \o result'.embeddings
               /\ \A i \in DOMAIN result'.documents :
                     LET c == ChunkId(result'.start_index + i - 1)
                     IN  /\ c \in Chunks(document_store', metadata_store')
                         /\ document_store'[c] = result'.documents[i].content
          ELSE UNCHANGED <<index, document_store, metadata_store>>
      ]_vars

\* C6: a load that takes the persisted pair as the instance's state never
\* yields an index whose size differs from the size of the record maps.
C6_LoadRejectsMismatchedPair ==
    (result.op = "load" /\ result.loaded) =>
        /\ Len(index.xb) = Size(document_store)
        /\ Len(index.xb) = Size(metadata_store)

\* The stored entries that clear the threshold and the filters for a query.
Qualifying(ds, ms, q, t, f) ==
    { c \in Chunks(ds, ms) :
        /\ InnerProduct(q, Embed(ds[c])) >= t
        /\ (f = EmptyDict \/ ApplyFilters(ms[c], f)) }

\* C7: a search returns qualifying entries only, top_k of them when at least
\* top_k qualify, and omits no qualifying entry that scores higher than one it
\* returns.
C7_TopKAmongQualifying ==
    \A q \in {e \in QueryEmbeddings : e.d = index.d}, k \in 1..MaxTopK,
       t \in Thresholds, f \in Filters :
        LET results == SearchOn(index, document_store, metadata_store, q, k, t, f)
            qualifying == Qualifying(document_store, metadata_store, q, t, f)
        IN  /\ ChunkIdsOf(results) \subseteq qualifying
            /\ Cardinality(qualifying) >= k => Len(results) = k
            /\ \A c \in qualifying \ ChunkIdsOf(results) :
                  \A i \in DOMAIN results :
                      InnerProduct(q, Embed(document_store[c]))
                          <= results[i].relevance_score

\* C8: for every chunk the instance holds, a search with the chunk's own
\* embedding and threshold 0 returns as its top result, with score 1.0, that
\* chunk (or, if several chunks have that very text and embedding, one of
\* them).
C8_SelfMatchIsTop ==
    \A c \in Chunks(document_store, metadata_store), k \in 1..MaxTopK :
        LET results == SearchOn(index, document_store, metadata_store,
                                Embed(document_store[c]), k, 0, EmptyDict)
        IN  /\ results # <<>>
            /\ results[1].relevance_score = One
            /\ results[1].content = document_store[c]
            /\ \/ results[1].chunk_id = c
               \/ document_store[results[1].chunk_id] = document_store[c]

\* C9: after an add whose persist wrote both files, a fresh instance that loads
\* the files returns for every query, top_k, threshold and filters the same
\* results as the instance that persisted.
C9_PersistLoadRoundTrip ==
    (result.op = "add" /\ result.ok /\ result.persist = "ok") =>
        LET fresh == InitializeIndex(index_file, metadata_file)
        IN  \A q \in QueryEmbeddings, k \in 1..MaxTopK, t \in Thresholds, f \in Filters :
                SearchOn(fresh.index, fresh.document_store, fresh.metadata_store,
                         q, k, t, f)
                    = SearchOn(index, document_store, metadata_store, q, k, t, f)

\* C9 witness: such an add has returned, and the instance finds two chunks.
C9_Witness ==
    /\ result.op = "add" /\ result.ok /\ result.persist = "ok"
    /\ Len(SearchOn(index, document_store, metadata_store, E1, MaxTopK, 0,
                    EmptyDict)) = 2

\* C10: no step changes the dimension of the index (a load and a rebuild
\* included), and an add with an embedding of another length returns failure
\* and leaves the index and both stores as they were.
C10_DimensionFixed ==
    [][/\ index'.d = index.d
       /\ (result'.op = "add" /\ result'.wrong_shape) =>
             /\ ~result'.ok
             /\ UNCHANGED <<index, document_store, metadata_store>>
      ]_vars

\* C10 witness: an add with an embedding of another length has returned on an
\* index that holds vectors and has been rebuilt or loaded before.
C10_Witness ==
    /\ result.op = "add" /\ result.wrong_shape /\ ~result.ok
    /\ Len(index.xb) > 0
    /\ Size(document_store) > Len(index.xb)

\* C11: on the event loop no search and no other writer runs while a writer is
\* between its first statement and its return: every search ran, and every
\* writer began, while no writer was in flight, so what a search sees is the
\* state a returned writer (or the construction) left.
C11_WritersSerialized ==
    result.op = "tasks" =>
        /\ result.search.during \in {"none", "idle"}
        /\ result.writer.op # "none" => result.writer.began_during = "idle"

\* C11 witness: a search has run after an add that returned success and had
\* persisted what the search saw, and a delete is now in flight before its
\* rebuild.
C11_Witness ==
    /\ result.op = "tasks"
    /\ result.search.during = "idle" /\ result.search.after = "add"
    /\ result.search.ntotal > 0 /\ result.search.persisted
    /\ result.writer.op = "delete" /\ result.writer.at = "rebuild"

\* The weighted risk total as the claims state it.
WeightedTotal(risk_scores) ==
    risk_scores.critical * 10 + risk_scores.high * 5 + risk_scores.medium * 2
        + risk_scores.low * 1

C13_HealthCheckTextsPass ==
    /\ (result.op = "check_content" /\ ~result.raised
           /\ result.content = HealthCheckSafeText) =>
          (result.is_safe /\ result.risk_level = "LOW")
    /\ (result.op = "check_content" /\ ~result.raised
           /\ result.content = HealthCheckUnsafeText) => ~result.is_safe
    /\ result.op = "health_check" => result.healthy

\* C14: the text generate_safe_response returns, whatever the message and
\* also on the error path, is found safe by check_content.
C14_FallbackPassesClassifier ==
    result.op = "generate_safe_response" =>
        CheckContent(result.response, "none").is_safe

\* C15: a check_content in which an exception was raised returns is_safe =
\* false at risk HIGH; with a fault in the call, is_safe = true is returned
\* only by the empty-content return that precedes the faulting statement.
C15_FailsClosed ==
    result.op = "check_content" =>
        /\ result.raised => (~result.is_safe /\ result.risk_level = "HIGH")
        /\ (result.fault # "none" /\ result.is_safe) =>
               (~result.raised /\ Strip(result.content) = "")
        /\ (result.fault # "none" /\ Strip(result.content) # "") => result.raised

\* C15 witness: the logging raised on a text without any pattern match, and
\* the call returned unsafe at HIGH.
C15_Witness ==
    /\ result.op = "check_content" /\ result.raised /\ result.fault = "log"
    /\ ~result.is_safe /\ result.risk_level = "HIGH"
    /\ AssessContentRisk(result.content).total_risk = 0
    /\ DetectMedicalAdvice(result.content).advice_count = 0

\* C16: for a non-empty text scored without an exception the risk level is
\* CRITICAL if the total is at least 30 or there are at least 3 advice
\* matches, else HIGH if the total is at least 20 or there is an advice match,
\* else MEDIUM if the total is at least 10, else LOW; and appending a word or
\* phrase to the text never lowers the level.
C16_RiskLevelByTotalAndAdvice ==
    (result.op = "check_content" /\ ~result.raised /\ result.content # "") =>
        LET total == WeightedTotal(AssessContentRisk(result.content).risk_scores)
            advice == DetectMedicalAdvice(result.content).advice_count
        IN  /\ result.risk_level =
                  IF total >= 30 \/ advice >= 3 THEN "CRITICAL"
                  ELSE IF total >= 20 \/ advice >= 1 THEN "HIGH"
                  ELSE IF total >= 10 THEN "MEDIUM"
                  ELSE "LOW"
            /\ \A w \in Words :
                  RiskLevel[CheckContent(result.content \o " " \o w,
                                         "none").risk_level]
                      >= RiskLevel[result.risk_level]

\* C16 witness: a text is at CRITICAL for its advice matches with a total
\* below 30, and a text is at MEDIUM.
C16_Witness ==
    /\ result.op = "check_content" /\ ~result.raised
    /\ result.risk_level = "CRITICAL"
    /\ AssessContentRisk(result.content).total_risk < 30
    /\ DetectMedicalAdvice(result.content).advice_count >= 3

\* The emergency keywords as the claim lists them.
StatedEmergencyKeywords ==
    {"emergency", "urgent", "severe", "critical", "bleeding", "unconscious",
     "breathing", "heart", "pain"}

StatedSymptomKeywords ==
    {"symptom", "feeling", "experiencing", "noticing", "having"}

StatedTreatmentKeywords ==
    {"treat", "cure", "fix", "help", "solution", "remedy"}

\* The template the priority order picks for a message when the emergency
\* keywords are the given ones.
TemplateByPriority(message, emergency) ==
    LET lower == StrLower(message)
    IN  IF \E k \in emergency : Contains(lower, k) THEN EmergencyResponse
        ELSE IF \E k \in StatedSymptomKeywords : Contains(lower, k)
             THEN SymptomResponse
        ELSE IF \E k \in StatedTreatmentKeywords : Contains(lower, k)
             THEN TreatmentResponse
        ELSE GeneralSafeResponse

\* C17 as stated: the emergency template is returned exactly for the messages
\* that contain one of the nine listed emergency keywords.
C17_AsStated ==
    (result.op = "generate_safe_response" /\ ~result.raised) =>
        result.response = TemplateByPriority(result.user_message,
                                             StatedEmergencyKeywords)

\* C17: for a message handled without an exception generate_safe_response
\* returns the template the priority order emergency, symptom, treatment,
\* generic picks, the emergency keywords being the nine listed ones and
\* "immediate".
C17_TemplateByKeywordPriority ==
    (result.op = "generate_safe_response" /\ ~result.raised) =>
        result.response = TemplateByPriority(
                              result.user_message,
                              StatedEmergencyKeywords \cup {"immediate"})

\* C17 witness: a message with a symptom keyword and "immediate", and none of
\* the nine listed emergency keywords, got the emergency template.
C17_Witness ==
    /\ result.op = "generate_safe_response" /\ ~result.raised
    /\ result.response = EmergencyResponse
    /\ Contains(StrLower(result.user_message), "immediate")
    /\ Contains(StrLower(result.user_message), "having")
    /\ \A k \in StatedEmergencyKeywords :
          ~Contains(StrLower(result.user_message), k)

\* C18: in every iteration of chunk_text's loop the start advances by at
\* least one character.
C18_StartAdvances ==
    [][(/\ result.op = "chunk_text" /\ result'.op = "chunk_text"
        /\ Len(result'.chunks) = Len(result.chunks) + 1)
          => result'.start >= result.start + 1]_vars

\* C19: no window is longer than chunk_size, consecutive windows leave no gap,
\* and once chunk_text has returned, or has made more iterations than the
\* text has characters, every position of the text lies in a window.
C19_WindowsCoverText ==
    result.op = "chunk_text" =>
        /\ \A i \in DOMAIN result.windows :
              result.windows[i].end - result.windows[i].start
                  <= result.chunk_size
        /\ \A i \in 1..(Len(result.windows) - 1) :
              result.windows[i + 1].start <= result.windows[i].end
        /\ (result.returned \/ Len(result.windows) > Len(result.text)) =>
              \A p \in 0..(Len(result.text) - 1) :
                  \E i \in DOMAIN result.windows :
                      /\ result.windows[i].start <= p
                      /\ p < result.windows[i].end

\* C20: the chunks chunk_text returns are stripped and none of them is
\* empty.
C20_NoEmptyChunk ==
    (result.op = "chunk_text" /\ result.returned) =>
        \A i \in DOMAIN result.chunks :
            /\ result.chunks[i] # ""
            /\ result.chunks[i] = Strip(result.chunks[i])

\* The characters a cleaned text may hold.
CleanChars == ReWord \cup KeptPunctuation \cup {" "}

\* C21: cleaning is idempotent: a call of _clean_text on the text an earlier
\* call returned returns that text unchanged, and a returned text has no
\* whitespace but single spaces, none at its ends, and no removed character.
C21_CleanIsIdempotent ==
    [][result'.op = "_clean_text" =>
          /\ result.op = "_clean_text" => result'.cleaned = result.cleaned
          /\ \A i \in 1..Len(result'.cleaned) :
                /\ CharAt(result'.cleaned, i) \in CleanChars
                /\ CharAt(result'.cleaned, i) = " " =>
                      /\ 1 < i /\ i < Len(result'.cleaned)
                      /\ CharAt(result'.cleaned, i + 1) # " "]_vars

\* A second pass has run over a text the first pass had changed in every
\* way: whitespace collapsed, a character removed, the ends stripped.
C21_Witness ==
    /\ result.op = "_clean_text"
    /\ result.passes = 2
    /\ result.cleaned = "a B."

\* C22: an add_documents call in which a chunk was left without an embedding,
\* or whose save of the index failed, returns failure and leaves the index
\* and the record maps as they were.
C22_NoSilentPartialIngest ==
    [][(/\ result'.op = "add_documents"
        /\ result'.chunks > 0
        /\ ~result'.embedded \/ result'.persist \in SaveOutcomes \ {"ok"})
          => /\ ~result'.success
             /\ index' = index
             /\ document_store' = document_store]_vars

\* C23: after update_document(d, new_text, metadata) has returned success for
\* a document d that had chunks, the chunks stored under d are exactly the
\* chunks of new_text (those a later delete_document(d) removes): none of
\* the previous version, and all of the new one.
C23_UpdateReplacesUnderSameId ==
    [][(/\ result'.op = "update_document"
        /\ result'.success
        /\ ChunksToDelete(metadata_store, result'.document_id) # {})
          => LET under_d == ChunksToDelete(metadata_store', result'.document_id)
                 chunks == ChunkText(result'.new_content, 0, 0)
             IN  /\ Cardinality(under_d) = Len(chunks)
                 /\ \A c \in under_d :
                       \E j \in DOMAIN chunks : document_store'[c] = chunks[j]]_vars

\* C24: a query whose vector search raised (the query embedding is empty or
\* has another length than the index) raises to its caller: no result, empty
\* or not, is returned for it.
C24_FailedSearchRaises ==
    (result.op = "query" /\ result.search_raised) => result.raised

\* The default is taken only for an omitted argument.
DefaultIfOmitted(arg, default) ==
    IF arg = {} THEN default ELSE CHOOSE v \in arg : TRUE

\* C29: a query applies the top_k and the similarity_threshold its caller
\* supplied (a similarity_threshold of 0 included) and the configured
\* defaults only for the omitted ones, and the values in the result's
\* metadata are the ones applied to the search.
C29_SuppliedParametersApplied ==
    (result.op = "query" /\ ~result.raised) =>
        LET top_k == DefaultIfOmitted(result.args.top_k, settings_top_k_results)
            similarity_threshold ==
                DefaultIfOmitted(result.args.similarity_threshold,
                                 settings_similarity_threshold)
        IN  /\ result.metadata.top_k = top_k
            /\ result.metadata.similarity_threshold = similarity_threshold
            /\ result.documents =
                  ProcessResults(
                      SearchResults(index, document_store, metadata_store,
                                    result.args.query_embedding, top_k,
                                    similarity_threshold,
                                    result.metadata.filters_applied),
                      similarity_threshold)

\* C28: once delete_document(d) has returned success, an instance loaded
\* from the files on disk holds no chunk of d, and, if the files matched the
\* live instance before the call, the same chunks as the live instance.
C28_DeleteIsDurable ==
    [][(result'.op = "delete" /\ result'.ok) =>
          LET before == InitializeIndex(index_file, metadata_file)
              fresh == InitializeIndex(index_file', metadata_file')
          IN  /\ \A c \in DOMAIN fresh.metadata_store :
                    fresh.metadata_store[c].document_id # result'.document_id
              /\ before.document_store = document_store
                    => fresh.document_store = document_store']_vars

\* The positions of the window of chunk_size characters at start (counted
\* from 0 within the window) that hold the character ending and lie beyond
\* 0.7 * chunk_size.
LateEndings(text, chunk_size, start, endings) ==
    { i \in 0..(chunk_size - 1) :
        /\ start + i < Len(text)
        /\ CharAt(text, start + i + 1) \in endings
        /\ i * 10 > chunk_size * 7 }

Last(S) == CHOOSE i \in S : \A j \in S : j <= i

\* Whether a step makes an iteration of chunk_text's loop, and the end of
\* the window and the chunk of that iteration.
IterationMade ==
    /\ result.op = "chunk_text" /\ result'.op = "chunk_text"
    /\ Len(result'.windows) = Len(result.windows) + 1

IterationEnd == result'.windows[Len(result'.windows)].end

IterationChunk == result'.chunks[Len(result'.chunks)]

\* C27 as stated: a window that ends before the end of the text ends after
\* the right-most sentence ending of any kind beyond 0.7 * chunk_size, and at
\* start + chunk_size if there is none.
C27_AsStated ==
    [][IterationMade =>
          LET late == LateEndings(result.text, result.chunk_size,
                                  result.start, {".", "!", "?", "\n"})
          IN  IterationEnd =
                 IF result.start + result.chunk_size < Len(result.text)
                    /\ late # {}
                 THEN result.start + Last(late) + 1
                 ELSE result.start + result.chunk_size]_vars

\* C27: a window that ends before the end of the text ends after the
\* right-most occurrence, beyond 0.7 * chunk_size, of the first of '.', '!',
\* '?' and newline that has such an occurrence, and at start + chunk_size if
\* none has; the chunk is the stripped text of the window.
C27_BreakAtFirstKindOfEnding ==
    [][IterationMade =>
          LET Late(ending) == LateEndings(result.text, result.chunk_size,
                                          result.start, {ending})
              end == IF result.start + result.chunk_size >= Len(result.text)
                     THEN result.start + result.chunk_size
                     ELSE IF Late(".") # {}
                     THEN result.start + Last(Late(".")) + 1
                     ELSE IF Late("!") # {}
                     THEN result.start + Last(Late("!")) + 1
                     ELSE IF Late("?") # {}
                     THEN result.start + Last(Late("?")) + 1
                     ELSE IF Late("\n") # {}
                     THEN result.start + Last(Late("\n")) + 1
                     ELSE result.start + result.chunk_size
          IN  /\ IterationEnd = end
              /\ IterationChunk =
                    Strip(PySlice(result.text, result.start, end))]_vars

\* The loop has cut a window after a full stop although an exclamation mark
\* lay further right in the window, beyond 0.7 * chunk_size.
C27_Witness ==
    /\ result.op = "chunk_text"
    /\ result.text = "aaaaa.!a"
    /\ result.chunk_size = 7
    /\ result.windows # <<>>
    /\ result.windows[1] = [start |-> 0, end |-> 6]

\* C26: process_document fails with a not-found error for a missing file,
\* with an unsupported-format error for an unrecognized suffix, and with an
\* error for every other failure to extract the text of a supported file;
\* a failed extraction is never returned as a list of chunks.
C26_FailuresRaise ==
    result.op = "process_document" =>
        /\ ~result.file.exists => result.raised = "FileNotFoundError"
        /\ (/\ result.file.exists
            /\ StrLower(result.file.suffix) \notin DOMAIN supported_formats)
              => result.raised = "ValueError"
        /\ (/\ result.file.exists
            /\ StrLower(result.file.suffix) \in DOMAIN supported_formats
            /\ result.file.extraction = "error")
              => result.raised = "Exception"

\* C25: an ingestion run over N documents counts every document once, as
\* processed or as failed, whatever happened to the documents before it:
\* processed_documents + failed_documents = N.
C25_EveryDocumentCounted ==
    (result.op = "ingest_documents" /\ result.status = "completed") =>
        /\ result.total_documents = Len(result.documents)
        /\ result.processed_documents + result.failed_documents
              = result.total_documents

\* A run in which the first document failed (its extraction raised, gave no
\* text, or its chunks were not added) and the second was processed.
C25_Witness ==
    /\ result.op = "ingest_documents"
    /\ result.status = "completed"
    /\ result.total_documents = 2
    /\ result.failed_documents = 1
    /\ result.processed_documents = 1
    /\ ProcessDocument(result.documents[1]).chunks = <<>>
    /\ ProcessDocument(result.documents[2]).chunks # <<>>

\* The calls of send_message that follow the input checkpoint.
GatedCalls ==
    {"get_conversation", "query", "generate_response",
     "generate_safe_response", "add_message"}

\* The canned texts of generate_safe_response.
CannedFallbacks ==
    {EmergencyResponse, SymptomResponse, TreatmentResponse,
     GeneralSafeResponse, GeneralDisclaimer}

\* The contents of the assistant messages in the conversation memory.
StoredResponses ==
    UNION { { result.conversations[c][i].content :
                i \in { j \in DOMAIN result.conversations[c] :
                          result.conversations[c][j].role = "assistant" } } :
            c \in DOMAIN result.conversations }

\* C30: in the chat flow, a request whose message the input check judged
\* unsafe is rejected having made no call but that check (no RAG query, no
\* generation, no memory write), and a model output the output check judged
\* unsafe is neither returned nor stored: the response is the canned
\* fallback of generate_safe_response, with the disclaimer.
C30_CheckpointsGate ==
    result.op = "send_message" =>
        /\ ~result.user_input_safe =>
              /\ result.calls = <<"check_content">>
              /\ result.status = 400
              /\ result.conversations = EmptyDict
        /\ (\E i \in 1..Len(result.calls) : result.calls[i] \in GatedCalls)
              => result.user_input_safe
        /\ (result.status = 200 /\ ~result.ai_response_safe) =>
              /\ result.response # result.generated
              /\ result.response # WithDisclaimer(result.generated)
              /\ \E raises \in BOOLEAN :
                    result.response =
                        WithDisclaimer(GenerateSafeResponse(result.message,
                                                            raises))
        /\ (~result.ai_response_safe /\ result.generated # "") =>
              /\ result.generated \notin StoredResponses
              /\ WithDisclaimer(result.generated) \notin StoredResponses

\* A request whose model output was judged unsafe has returned.
C30_Witness ==
    /\ result.op = "send_message"
    /\ result.status = 200
    /\ result.user_input_safe
    /\ ~result.ai_response_safe
    /\ result.generated = "urgent surgery"
    /\ result.response = WithDisclaimer(SymptomResponse)
    /\ "query" \in { result.calls[i] : i \in 1..Len(result.calls) }

=============================================================================
